---- MODULE Spec2Model ----
(***************************************************************************)
(* Tabular reconciliation scripts of the PowerBI-Automation repository:    *)
(* value normalisation, schema (column-name) mapping, cell comparison and  *)
(* the per-table comparison of compare_excel_snowflake_reports.py,         *)
(* validate_excel_snowflake.py, complete_data_comparison.py,               *)
(* detect_csv_excel_mismatches.py and utils/data_validator.py.             *)
(*                                                                         *)
(* Text is a sequence of one-character strings.  A cell value is a record: *)
(*   [t |-> "None"]                  Python None                           *)
(*   [t |-> "NaN"]                   float('nan')                          *)
(*   [t |-> "Num", isint, v]         int or float, v in units of 1/Scale   *)
(*   [t |-> "Str", s]                str                                   *)
(***************************************************************************)
EXTENDS Integers, Sequences, FiniteSets, TLC

VARIABLES
    \* value normaliser
    nfn, nraw, nout1, nout2, npc,
    \* schema mapper
    excel_columns, sf_columns, column_mapping, missing_in_sf, extra_in_sf, mpc,
    \* cell comparison
    cfn, cval1, cval2, cshift, cfwd, cbwd, cshifted, cellpc,
    \* per-table comparison
    script, excel_df, sf_df, comparison, reads, saved, cpc,
    \* a batch of tables through a script's loop
    bscript, tables, table_idx, all_comparisons, report, returncode,
    steps_completed, steps_failed, bpc,
    \* a loader: what the reader or the cursor gave, and the dataset returned
    loader, raw, ldf, lpc,
    \* the folder validation_reports/ over several runs
    validation_reports, now, runs, earlier,
    \* a workflow runner: ValidationWorkflow or AllureValidationRunner
    runner, include_csv_comparison, present, wf_step, attempted, results, final_status,
    \* utils/logger.py: the class attribute, the instance, the logging.Logger
    instance, instances_made, initialized, setup_runs, handlers, constructed,
    file_records, console_records,
    \* utils/snowflake_connector.py: a connector inside a with statement
    manager, connection, cursor, query_cursors, block, propagated, close_calls,
    \* detect_csv_excel_mismatches.detect_mismatches
    file_mappings, mapping_idx, all_mismatches, summary_data, workbook

normVars == <<nfn, nraw, nout1, nout2, npc>>
mapVars  == <<excel_columns, sf_columns, column_mapping, missing_in_sf, extra_in_sf, mpc>>
cellVars == <<cfn, cval1, cval2, cshift, cfwd, cbwd, cshifted, cellpc>>
cmpVars  == <<script, excel_df, sf_df, comparison, reads, saved, cpc>>
batchVars == <<bscript, tables, table_idx, all_comparisons, report, returncode,
               steps_completed, steps_failed, bpc>>
loadVars == <<loader, raw, ldf, lpc>>
reportVars == <<validation_reports, now, runs, earlier>>
wfVars == <<runner, include_csv_comparison, present, wf_step, attempted, results,
           final_status>>
logVars == <<instance, instances_made, initialized, setup_runs, handlers, constructed,
            file_records, console_records>>
connVars == <<manager, connection, cursor, query_cursors, block, propagated, close_calls>>
detVars == <<file_mappings, mapping_idx, all_mismatches, summary_data, workbook>>
vars     == <<normVars, mapVars, cellVars, cmpVars, batchVars, loadVars, reportVars,
             wfVars, logVars, connVars, detVars>>

----------------------------------------------------------------------------
(* Bounds of the model *)

MaxStrLen == 3
MaxCols   == 2
MaxRows   == 2
MaxTables == 2
MaxRuns   == 3
MaxCalls  == 6

----------------------------------------------------------------------------
(* Python str operations on character sequences *)

Max(a, b) == IF a >= b THEN a ELSE b
Min(a, b) == IF a <= b THEN a ELSE b
Abs(x)    == IF x < 0 THEN -x ELSE x

IsSpace(c) == c = " "

RECURSIVE LStrip(_)
LStrip(s) == IF s # <<>> /\ IsSpace(Head(s)) THEN LStrip(Tail(s)) ELSE s

RECURSIVE RStrip(_)
RStrip(s) ==
    IF s # <<>> /\ IsSpace(s[Len(s)]) THEN RStrip(SubSeq(s, 1, Len(s) - 1)) ELSE s

\* str.strip()
Strip(s) == RStrip(LStrip(s))

IsPrefix(p, s) == Len(p) <= Len(s) /\ SubSeq(s, 1, Len(p)) = p

\* str.replace(old, new): leftmost, non-overlapping occurrences; old is non-empty
RECURSIVE Replace(_, _, _)
Replace(s, old, new) ==
    IF Len(s) < Len(old) THEN s
    ELSE IF IsPrefix(old, s)
         THEN new \o Replace(SubSeq(s, Len(old) + 1, Len(s)), old, new)
         ELSE <<Head(s)>> \o Replace(Tail(s), old, new)

\* `c in s` for a one-character c
Contains(s, c) == \E i \in 1..Len(s) : s[i] = c

UpperChar(c) ==
    CASE c = "a" -> "A" [] c = "b" -> "B" [] c = "c" -> "C" [] c = "d" -> "D"
      [] c = "e" -> "E" [] c = "f" -> "F" [] c = "g" -> "G" [] c = "h" -> "H"
      [] c = "i" -> "I" [] c = "j" -> "J" [] c = "k" -> "K" [] c = "l" -> "L"
      [] c = "m" -> "M" [] c = "n" -> "N" [] c = "o" -> "O" [] c = "p" -> "P"
      [] c = "q" -> "Q" [] c = "r" -> "R" [] c = "s" -> "S" [] c = "t" -> "T"
      [] c = "u" -> "U" [] c = "v" -> "V" [] c = "w" -> "W" [] c = "x" -> "X"
      [] c = "y" -> "Y" [] c = "z" -> "Z" [] OTHER -> c

LowerChar(c) ==
    CASE c = "A" -> "a" [] c = "B" -> "b" [] c = "C" -> "c" [] c = "D" -> "d"
      [] c = "E" -> "e" [] c = "F" -> "f" [] c = "G" -> "g" [] c = "H" -> "h"
      [] c = "I" -> "i" [] c = "J" -> "j" [] c = "K" -> "k" [] c = "L" -> "l"
      [] c = "M" -> "m" [] c = "N" -> "n" [] c = "O" -> "o" [] c = "P" -> "p"
      [] c = "Q" -> "q" [] c = "R" -> "r" [] c = "S" -> "s" [] c = "T" -> "t"
      [] c = "U" -> "u" [] c = "V" -> "v" [] c = "W" -> "w" [] c = "X" -> "x"
      [] c = "Y" -> "y" [] c = "Z" -> "z" [] OTHER -> c

\* str.upper(), str.lower()
Upper(s) == [i \in 1..Len(s) |-> UpperChar(s[i])]
Lower(s) == [i \in 1..Len(s) |-> LowerChar(s[i])]

----------------------------------------------------------------------------
(* Cell values and Python's number parsing and printing *)

None == [t |-> "None"]
NaN  == [t |-> "NaN"]
Str(s) == [t |-> "Str", s |-> s]

IsNum(x) == x.t = "Num"
IsStr(x) == x.t = "Str"

\* pd.isna(x) for a scalar
IsNa(x) == x.t \in {"None", "NaN"}

Digits == {"0", "1", "2", "3", "4", "5", "6", "7", "8", "9"}

DigitVal(c) ==
    CASE c = "0" -> 0 [] c = "1" -> 1 [] c = "2" -> 2 [] c = "3" -> 3
      [] c = "4" -> 4 [] c = "5" -> 5 [] c = "6" -> 6 [] c = "7" -> 7
      [] c = "8" -> 8 [] c = "9" -> 9

DigitChar(d) ==
    CASE d = 0 -> "0" [] d = 1 -> "1" [] d = 2 -> "2" [] d = 3 -> "3"
      [] d = 4 -> "4" [] d = 5 -> "5" [] d = 6 -> "6" [] d = 7 -> "7"
      [] d = 8 -> "8" [] d = 9 -> "9"

AllDigits(s) == \A i \in 1..Len(s) : s[i] \in Digits

\* value of a digit string, most significant digit first
RECURSIVE DecValue(_)
DecValue(s) ==
    IF s = <<>> THEN 0 ELSE DecValue(SubSeq(s, 1, Len(s) - 1)) * 10 + DigitVal(s[Len(s)])

RECURSIVE Pow10(_)
Pow10(n) == IF n = 0 THEN 1 ELSE 10 * Pow10(n - 1)

\* 0.0001 of detect_csv_excel_mismatches.compare_values, as its inverse
DetectToleranceInverse == 10000

\* One unit of a Num is 1/Scale: the finest tolerance of the scripts.
Scale == DetectToleranceInverse

PyInt(n)   == [t |-> "Num", isint |-> TRUE,  v |-> n * Scale]
PyFloat(u) == [t |-> "Num", isint |-> FALSE, v |-> u]

\* position of the first "." of s, 0 when there is none
DotPos(s) ==
    IF Contains(s, ".") THEN CHOOSE i \in 1..Len(s) : s[i] = "." /\ \A j \in 1..(i - 1) : s[j] # "."
    ELSE 0

\* int(s) succeeds: surrounding whitespace is ignored, then one or more digits
IntParses(s) == LET w == Strip(s) IN w # <<>> /\ AllDigits(w)

IntParse(s) == PyInt(DecValue(Strip(s)))

\* float(s) succeeds: surrounding whitespace is ignored, then digits with at
\* most one ".", at least one digit (the alphabets used here hold no sign,
\* exponent, "inf" or "nan")
FloatParses(s) ==
    LET w == Strip(s)
        p == DotPos(w)
    IN  IF p = 0 THEN w # <<>> /\ AllDigits(w)
        ELSE /\ AllDigits(SubSeq(w, 1, p - 1))
             /\ AllDigits(SubSeq(w, p + 1, Len(w)))
             /\ Len(w) > 1

FloatParse(s) ==
    LET w == Strip(s)
        p == DotPos(w)
    IN  IF p = 0 THEN PyFloat(DecValue(w) * Scale)
        ELSE LET ip == SubSeq(w, 1, p - 1)
                 fp == SubSeq(w, p + 1, Len(w))
             IN  PyFloat(DecValue(ip) * Scale + (DecValue(fp) * Scale) \div Pow10(Len(fp)))

\* float(x) of an int or a float
ToFloat(x) == PyFloat(x.v)

\* decimal digits of a natural number
RECURSIVE NatStr(_)
NatStr(n) == IF n < 10 THEN <<DigitChar(n)>> ELSE NatStr(n \div 10) \o <<DigitChar(n % 10)>>

\* the number of decimal places of one unit
ScaleDigits == Len(NatStr(Scale)) - 1

\* u as exactly width digits, zero-padded on the left
RECURSIVE FixedStr(_, _)
FixedStr(u, width) ==
    IF width = 0 THEN <<>> ELSE FixedStr(u \div 10, width - 1) \o <<DigitChar(u % 10)>>

\* the fraction digits of u units, trailing zeros dropped, at least one digit
RECURSIVE FracStr(_, _)
FracStr(u, width) ==
    IF width > 1 /\ u % 10 = 0 THEN FracStr(u \div 10, width - 1) ELSE FixedStr(u, width)

\* str(x): "None", "nan", "12", "12.5", or the text itself
PyStr(x) ==
    CASE x.t = "None" -> <<"N", "o", "n", "e">>
      [] x.t = "NaN"  -> <<"n", "a", "n">>
      [] x.t = "Str"  -> x.s
      [] x.t = "Num"  ->
            LET sign == IF x.v < 0 THEN <<"-">> ELSE <<>>
                a    == Abs(x.v)
            IN  IF x.isint THEN sign \o NatStr(a \div Scale)
                ELSE sign \o NatStr(a \div Scale) \o <<".">> \o FracStr(a % Scale, ScaleDigits)

\* Python ==  between two cell values (1 == 1.0; nan is never equal)
PyEq(x, y) ==
    CASE x.t = "None" -> y.t = "None"
      [] x.t = "NaN"  -> FALSE
      [] x.t = "Num"  -> y.t = "Num" /\ x.v = y.v
      [] x.t = "Str"  -> y.t = "Str" /\ x.s = y.s

----------------------------------------------------------------------------
(* Value normalisers *)

\* compare_excel_snowflake_reports.py: clean_excel_value
clean_excel_value(value) ==
    IF IsNa(value) \/ (IsStr(value) /\ value.s = <<>>) THEN None
    ELSE IF IsStr(value) THEN
        LET v1 == Strip(value.s)
            v2 == IF Contains(v1, "$") \/ Contains(v1, ",")
                  THEN Replace(Replace(v1, <<"$">>, <<>>), <<",">>, <<>>)
                  ELSE v1
            v3 == IF Contains(v2, "%") THEN Replace(v2, <<"%">>, <<>>) ELSE v2
        IN  IF Contains(v3, ".")
            THEN IF FloatParses(v3) THEN FloatParse(v3) ELSE Str(v3)
            ELSE IF IntParses(v3) THEN IntParse(v3) ELSE Str(v3)
    ELSE value

\* complete_data_comparison.py: clean_value
clean_value_complete(value) ==
    IF IsNa(value) \/ (IsStr(value) /\ value.s = <<>>) THEN None
    ELSE IF IsStr(value) THEN
        LET v1 == Strip(value.s)
            v2 == Replace(Replace(Replace(v1, <<"$">>, <<>>), <<",">>, <<>>), <<"%">>, <<>>)
        IN  IF FloatParses(v2) THEN FloatParse(v2) ELSE Str(v2)
    ELSE IF IsNum(value) THEN ToFloat(value)
    ELSE value

\* detect_csv_excel_mismatches.py: clean_value
clean_value_detect(value) ==
    IF IsNa(value) THEN None
    ELSE IF IsStr(value) THEN
        LET v1 == Strip(Replace(Replace(Replace(value.s, <<"$">>, <<>>), <<",">>, <<>>),
                                <<"%">>, <<>>))
        IN  IF Contains(v1, ".")
            THEN IF FloatParses(v1) THEN FloatParse(v1) ELSE Str(v1)
            ELSE IF IntParses(v1) THEN IntParse(v1) ELSE Str(v1)
    ELSE value

\* validate_excel_snowflake.py: clean_value
clean_value_validate(value) ==
    IF IsNa(value) THEN None
    ELSE IF IsStr(value) THEN
        LET v1 == Replace(Replace(Replace(value.s, <<"$">>, <<>>), <<",">>, <<>>), <<"%">>, <<>>)
        IN  IF FloatParses(v1) THEN FloatParse(v1) ELSE Str(v1)
    ELSE IF IsNum(value) THEN ToFloat(value)
    ELSE value

Normalizers == {"clean_excel_value", "clean_value_complete", "clean_value_detect",
                "clean_value_validate"}

Normalize(fn, value) ==
    CASE fn = "clean_excel_value"    -> clean_excel_value(value)
      [] fn = "clean_value_complete" -> clean_value_complete(value)
      [] fn = "clean_value_detect"   -> clean_value_detect(value)
      [] fn = "clean_value_validate" -> clean_value_validate(value)

\* the characters of raw cell text: the symbols the normalisers strip, a
\* decimal point, whitespace, a digit and a letter
NormAlphabet == {"$", ",", "%", ".", " ", "1", "a"}

Texts(alphabet, n) == UNION {[1..k -> alphabet] : k \in 0..n}

RawValues ==
    {None, NaN, PyInt(1), PyFloat(Scale + Scale \div 2)}
        \cup {Str(s) : s \in Texts(NormAlphabet, MaxStrLen)}

----------------------------------------------------------------------------
(* Column normalisers: a whole column of text cells cleaned at once *)

\* numeric_series / 100: the cells of PercentCells keep the quotient exact
\* at the resolution 1/Scale
DivideBy100(x) == IF IsNum(x) THEN PyFloat(x.v \div 100) ELSE x

\* pd.to_numeric(cleaned, errors='coerce') of one cell
ToNumericCoerce(s) ==
    IF IntParses(s) THEN IntParse(s)
    ELSE IF FloatParses(s) THEN FloatParse(s)
    ELSE NaN

\* datacompy_validation/excel_csv_comparator.py: _clean_csv_numeric_values,
\* the body of the loop for one column of dtype object after the first
clean_csv_numeric_values(column) ==
    LET text == [i \in 1..Len(column) |-> PyStr(column[i])]
        has_percent == \E i \in 1..Len(text) : Contains(text[i], "%")
        cleaned == [i \in 1..Len(text) |->
                        Strip(Replace(Replace(Replace(text[i], <<"$">>, <<>>),
                                              <<",">>, <<>>), <<"%">>, <<>>))]
        parsed == [i \in 1..Len(text) |-> ToNumericCoerce(cleaned[i])]
        as_float == \E i \in 1..Len(parsed) : ~(IsNum(parsed[i]) /\ parsed[i].isint)
        numeric_series == [i \in 1..Len(parsed) |->
                              IF as_float /\ IsNum(parsed[i]) THEN ToFloat(parsed[i])
                              ELSE parsed[i]]
    IN  IF \A i \in 1..Len(numeric_series) : numeric_series[i] = NaN
        THEN [raised |-> FALSE, values |-> column]
        ELSE IF has_percent
             THEN [raised |-> FALSE,
                   values |-> [i \in 1..Len(column) |-> DivideBy100(numeric_series[i])]]
             ELSE [raised |-> FALSE, values |-> numeric_series]

\* import_product_type_csv_to_snowflake.py lines 100-102: a percent column
\* through astype(str).str.replace('%', '').astype(float); astype(float)
\* raises on a cell that is not a number
import_percent_column(column) ==
    LET text == [i \in 1..Len(column) |-> Replace(PyStr(column[i]), <<"%">>, <<>>)]
        IsNan(s) == Lower(Strip(s)) = <<"n", "a", "n">>
    IN  IF \E i \in 1..Len(text) : ~FloatParses(text[i]) /\ ~IsNan(text[i])
        THEN [raised |-> TRUE, values |-> column]
        ELSE [raised |-> FALSE,
              values |-> [i \in 1..Len(text) |->
                             IF IsNan(text[i]) THEN NaN ELSE FloatParse(text[i])]]

ColumnNormalizers == {"clean_csv_numeric_values", "import_percent_column"}

\* a normaliser applied to a column: the cell normalisers go cell by cell
\* (DataFrame.apply / Series.apply)
NormalizeColumn(fn, column) ==
    CASE fn = "clean_csv_numeric_values" -> clean_csv_numeric_values(column)
      [] fn = "import_percent_column"    -> import_percent_column(column)
      [] OTHER -> [raised |-> FALSE,
                   values |-> [i \in 1..Len(column) |-> Normalize(fn, column[i])]]

\* the cells of a text column of a report export: percent texts, plain
\* numbers, a label and a missing cell
PercentCells ==
    {Str(<<"0", ".", "6", "%">>), Str(<<"6", "%">>), Str(<<"0", ".", "6">>),
     Str(<<"6">>), Str(<<"a">>), NaN}

PercentColumns == UNION {[1..k -> PercentCells] : k \in 1..MaxRows}

----------------------------------------------------------------------------
(* Schema mapping: compare_excel_snowflake_reports.py, compare_dataframes, step 3 *)

PERCENT == <<"P", "E", "R", "C", "E", "N", "T">>

\* line 322: excel_col.upper().replace(' ', '_').replace('%', 'PERCENT')
sf_col_expected(excel_col) ==
    Replace(Replace(Upper(excel_col), <<" ">>, <<"_">>), <<"%">>, PERCENT)

\* line 331: the fuzzy comparison of one Snowflake name with one Excel name
FuzzyMatch(sf_col, excel_col) ==
    Replace(Replace(sf_col, <<"_">>, <<>>), PERCENT, <<>>)
        = Upper(Replace(Replace(excel_col, <<" ">>, <<>>), <<"%">>, <<>>))

InSeq(x, seq) == \E i \in 1..Len(seq) : seq[i] = x

\* the last Snowflake column, in order, that matches fuzzily; 0 when none does
LastFuzzy(excel_col, sf_cols) ==
    IF \E i \in 1..Len(sf_cols) : FuzzyMatch(sf_cols[i], excel_col)
    THEN CHOOSE i \in 1..Len(sf_cols) :
            /\ FuzzyMatch(sf_cols[i], excel_col)
            /\ \A j \in (i + 1)..Len(sf_cols) : ~FuzzyMatch(sf_cols[j], excel_col)
    ELSE 0

\* lines 330-334: the first Snowflake column, in order, that matches fuzzily;
\* 0 when none does
FirstFuzzy(excel_col, sf_cols) ==
    IF \E i \in 1..Len(sf_cols) : FuzzyMatch(sf_cols[i], excel_col)
    THEN CHOOSE i \in 1..Len(sf_cols) :
            /\ FuzzyMatch(sf_cols[i], excel_col)
            /\ \A j \in 1..(i - 1) : ~FuzzyMatch(sf_cols[j], excel_col)
    ELSE 0

\* lines 320-337, one iteration: the Snowflake column excel_col maps to, or
\* <<>> with found = FALSE
MapColumn(excel_col, sf_cols) ==
    IF InSeq(sf_col_expected(excel_col), sf_cols)
    THEN [found |-> TRUE, sf_col |-> sf_col_expected(excel_col)]
    ELSE LET i == FirstFuzzy(excel_col, sf_cols)
         IN  IF i > 0 THEN [found |-> TRUE, sf_col |-> sf_cols[i]]
             ELSE [found |-> FALSE, sf_col |-> <<>>]

\* lines 315-337: the dict column_mapping as the sequence of its items
\* <<excel_col, sf_col>> in insertion order
RECURSIVE BuildColumnMapping(_, _)
BuildColumnMapping(excel_cols, sf_cols) ==
    IF excel_cols = <<>> THEN <<>>
    ELSE LET m == MapColumn(Head(excel_cols), sf_cols)
         IN  (IF m.found THEN << <<Head(excel_cols), m.sf_col>> >> ELSE <<>>)
                 \o BuildColumnMapping(Tail(excel_cols), sf_cols)

\* lines 336-337: the Excel columns no Snowflake column was found for
RECURSIVE BuildMissing(_, _)
BuildMissing(excel_cols, sf_cols) ==
    IF excel_cols = <<>> THEN <<>>
    ELSE (IF MapColumn(Head(excel_cols), sf_cols).found THEN <<>> ELSE <<Head(excel_cols)>>)
             \o BuildMissing(Tail(excel_cols), sf_cols)

\* line 340: set(column_mapping.values())
MappedSfCols(mapping) == {mapping[i][2] : i \in 1..Len(mapping)}

\* every Snowflake column reported as extra, mapped or not
BuildExtraUnfiltered(mapping, sf_cols) == sf_cols

\* line 341: [col for col in sf_columns if col not in mapped_sf_cols]
BuildExtra(mapping, sf_cols) ==
    LET NotMapped(col) == col \notin MappedSfCols(mapping)
    IN  SelectSeq(sf_cols, NotMapped)

\* line 311: [str(col).strip() for col in excel_df.columns]
StripAll(cols) == [i \in 1..Len(cols) |-> Strip(cols[i])]

----------------------------------------------------------------------------
(* Cell comparison *)

\* rtol=1e-5 of np.isclose, as its inverse
RtolInverse == 100000
\* numpy's default atol = 1e-8, as its inverse
AtolInverse == Pow10(8)

\* np.isclose(a, b, rtol=1e-5) for two finite numbers:
\*   |a - b| <= atol + rtol * |b|
\* in units of 1/Scale, both sides multiplied by RtolInverse
IsClose(a, b) ==
    Abs(a.v - b.v) <= (Abs(b.v) + (Scale * RtolInverse) \div AtolInverse) \div RtolInverse

\* isinstance(x, (int, float)): nan is a float
IsIntOrFloat(x) == x.t \in {"Num", "NaN"}

\* compare_excel_snowflake_reports.py lines 400-422 and
\* validate_excel_snowflake.py lines 231-252: TRUE when a mismatch is appended
IsCloseMismatch(excel_val, sf_val) ==
    IF IsNa(excel_val) /\ IsNa(sf_val) THEN FALSE
    ELSE IF IsIntOrFloat(excel_val) /\ IsIntOrFloat(sf_val)
         THEN IF IsNum(excel_val) /\ IsNum(sf_val) THEN ~IsClose(excel_val, sf_val)
              ELSE TRUE  \* one nan: isclose is False
         ELSE PyStr(excel_val) # PyStr(sf_val)

\* tolerance=0.01 of complete_data_comparison.compare_values, as its inverse
ToleranceInverse == 100

\* complete_data_comparison.py: compare_values, TRUE when different
compare_values_complete(csv_val, excel_val) ==
    IF IsNa(csv_val) /\ IsNa(excel_val) THEN FALSE
    ELSE IF IsNa(csv_val) \/ IsNa(excel_val) THEN TRUE
    ELSE LET csv_clean   == clean_value_complete(csv_val)
             excel_clean == clean_value_complete(excel_val)
         IN  IF IsNum(csv_clean) /\ IsNum(excel_clean)
             THEN Abs(csv_clean.v - excel_clean.v) > Scale \div ToleranceInverse
             ELSE Strip(PyStr(csv_clean)) # Strip(PyStr(excel_clean))

\* detect_csv_excel_mismatches.py: compare_values, TRUE when the values match
compare_values_detect(val1, val2) ==
    IF IsNa(val1) /\ IsNa(val2) THEN TRUE
    ELSE IF IsNa(val1) \/ IsNa(val2) THEN FALSE
    ELSE IF IsNum(val1) /\ IsNum(val2)
         THEN Abs(val1.v - val2.v) < Scale \div DetectToleranceInverse
         ELSE Lower(Strip(PyStr(val1))) = Lower(Strip(PyStr(val2)))

CellFns == {"compare_dataframes", "validate_data_samples", "compare_values_complete",
            "compare_values_detect"}

\* TRUE when the script's cell comparison records a mismatch for (a, b)
CellMismatch(fn, a, b) ==
    CASE fn = "compare_dataframes"      -> IsCloseMismatch(a, b)
      [] fn = "validate_data_samples"   -> IsCloseMismatch(a, b)
      [] fn = "compare_values_complete" -> compare_values_complete(a, b)
      [] fn = "compare_values_detect"   -> ~compare_values_detect(a, b)

----------------------------------------------------------------------------
(* Datasets: [columns |-> sequence of names, rows |-> sequence of rows],    *)
(* a row being the sequence of its cells in column order                    *)

HasColumn(df, name) == InSeq(name, df.columns)

ColIndex(df, name) == CHOOSE i \in 1..Len(df.columns) : df.columns[i] = name

\* df.iloc[idx][name], idx counted from 0
Cell(df, idx, name) == df.rows[idx + 1][ColIndex(df, name)]

\* df[name].isna().sum()
NullCount(df, name) ==
    Cardinality({i \in 1..Len(df.rows) : IsNa(df.rows[i][ColIndex(df, name)])})

BoolToInt(b) == IF b THEN 1 ELSE 0

\* range(n) as a set
Range(n) == 0..(n - 1)

\* the pairs <<idx, k>> of a nested loop `for idx in range(n): for k in 1..m`,
\* in iteration order
LoopPairs(n, m) == [p \in 1..(n * m) |-> <<(p - 1) \div m, ((p - 1) % m) + 1>>]

----------------------------------------------------------------------------
(* compare_excel_snowflake_reports.py: compare_dataframes *)

\* line 393: sample_size = min(10, excel_rows, sf_rows)
SampleCap == 10

\* the verdict without the unmapped-column condition
AllPassedIgnoringMissing(row_match, col_match, missing, null_mismatches, mismatches) ==
    row_match /\ col_match /\ null_mismatches = <<>> /\ mismatches = <<>>

\* lines 433-439
all_passed(row_match, col_match, missing, null_mismatches, mismatches) ==
    /\ row_match
    /\ col_match
    /\ missing = <<>>
    /\ null_mismatches = <<>>
    /\ mismatches = <<>>

\* lines 359-372: one entry per item of column_mapping
null_comparison(edf, sdf, mapping) ==
    [k \in 1..Len(mapping) |->
        LET excel_nulls == NullCount(edf, mapping[k][1])
            sf_nulls    == NullCount(sdf, mapping[k][2])
        IN  [column          |-> mapping[k][1],
             excel_nulls     |-> excel_nulls,
             snowflake_nulls |-> sf_nulls,
             match           |-> excel_nulls = sf_nulls,
             difference      |-> sf_nulls - excel_nulls]]

\* lines 392-422: the mismatches of the first sample_size rows, in loop order
data_mismatches(edf, sdf, mapping, sample_size) ==
    LET pairs == LoopPairs(sample_size, Len(mapping))
        Differs(p) == IsCloseMismatch(Cell(edf, p[1], mapping[p[2]][1]),
                                      Cell(sdf, p[1], mapping[p[2]][2]))
        bad == SelectSeq(pairs, Differs)
    IN  [i \in 1..Len(bad) |-> [row |-> bad[i][1], column |-> mapping[bad[i][2]][1]]]

compare_dataframes(edf, sdf) ==
    LET excel_rows == Len(edf.rows)
        sf_rows    == Len(sdf.rows)
        row_match  == excel_rows = sf_rows
        excel_cols == Len(edf.columns)
        sf_cols    == Len(sdf.columns)
        col_match  == excel_cols = sf_cols
        ecolumns   == StripAll(edf.columns)
        mapping    == BuildColumnMapping(ecolumns, sdf.columns)
        missing    == BuildMissing(ecolumns, sdf.columns)
        extra      == BuildExtra(mapping, sdf.columns)
        nulls      == null_comparison(edf, sdf, mapping)
        NoMatch(e) == ~e.match
        null_mismatches == SelectSeq(nulls, NoMatch)
        sample_size == Min(SampleCap, Min(excel_rows, sf_rows))
        mismatches == data_mismatches(edf, sdf, mapping, sample_size)
        passed     == all_passed(row_match, col_match, missing, null_mismatches, mismatches)
    IN  [checks |->
            [row_count |-> [excel |-> excel_rows, snowflake |-> sf_rows,
                            match |-> row_match, difference |-> sf_rows - excel_rows,
                            status |-> IF row_match THEN "PASS" ELSE "FAIL"],
             column_count |-> [excel |-> excel_cols, snowflake |-> sf_cols,
                               match |-> col_match, difference |-> sf_cols - excel_cols,
                               status |-> IF col_match THEN "PASS" ELSE "FAIL"],
             column_mapping |-> [excel_columns |-> ecolumns,
                                 snowflake_columns |-> sdf.columns,
                                 mapping |-> mapping,
                                 missing_in_snowflake |-> missing,
                                 extra_in_snowflake |-> extra,
                                 status |-> IF missing = <<>> THEN "PASS" ELSE "WARN"],
             null_values |-> nulls,
             data_validation |-> [sample_size |-> sample_size,
                                  mismatches |-> mismatches,
                                  status |-> IF mismatches = <<>> THEN "PASS" ELSE "FAIL"]],
         overall_status |-> IF passed THEN "PASSED" ELSE "FAILED",
         summary |->
            [total_checks |-> 6,
             passed |-> BoolToInt(row_match) + BoolToInt(col_match)
                          + BoolToInt(missing = <<>>) + BoolToInt(null_mismatches = <<>>)
                          + BoolToInt(mismatches = <<>>) + 1,
             warnings |-> Len(null_mismatches) + Len(extra),
             failures |-> Len(missing) + Len(mismatches)
                            + (IF row_match THEN 0 ELSE 1) + (IF col_match THEN 0 ELSE 1)]]

\* lines 395-398: the row indices the cell audit reads on each side
compare_dataframes_reads(edf, sdf) ==
    LET mapping     == BuildColumnMapping(StripAll(edf.columns), sdf.columns)
        sample_size == Min(SampleCap, Min(Len(edf.rows), Len(sdf.rows)))
        idxs        == IF mapping = <<>> THEN {} ELSE Range(sample_size)
    IN  [reference |-> idxs, candidate |-> idxs]

----------------------------------------------------------------------------
(* validate_excel_snowflake.py *)

\* line 360: validate_data_samples(..., sample_size=5)
ValidateSampleSize == 5

\* str(df[col].dtype) starts with 'float' or 'int': the column holds numbers
\* (absent cells of a numeric column are nan)
NumericDtype(df, name) ==
    /\ \E i \in 1..Len(df.rows) : IsNum(df.rows[i][ColIndex(df, name)])
    /\ \A i \in 1..Len(df.rows) : IsIntOrFloat(df.rows[i][ColIndex(df, name)]) \/
                                     IsNa(df.rows[i][ColIndex(df, name)])

\* compare_data_types, lines 165-183: the columns with an issue
dtype_mismatches(csv_df, sdf) ==
    LET Issue(col) == \/ ~HasColumn(sdf, col)
                      \/ NumericDtype(csv_df, col) /\ ~NumericDtype(sdf, col)
    IN  SelectSeq(csv_df.columns, Issue)

\* compare_null_counts, lines 196-209: the columns whose null counts differ
null_differences(csv_df, sdf) ==
    LET Differs(col) == HasColumn(sdf, col) /\ NullCount(csv_df, col) # NullCount(sdf, col)
        cols == SelectSeq(csv_df.columns, Differs)
    IN  [i \in 1..Len(cols) |->
            [column          |-> cols[i],
             csv_nulls       |-> NullCount(csv_df, cols[i]),
             snowflake_nulls |-> NullCount(sdf, cols[i]),
             difference      |-> NullCount(sdf, cols[i]) - NullCount(csv_df, cols[i])]]

\* validate_data_samples, lines 221-226: the columns the loop does not skip
CommonColumns(csv_df, sdf) ==
    LET InSf(col) == HasColumn(sdf, col) IN SelectSeq(csv_df.columns, InSf)

\* validate_data_samples, line 221: min(sample_size, len(csv_df))
validate_sample_size(csv_df, sample_size) == Min(sample_size, Len(csv_df.rows))

\* validate_data_samples, lines 223-229: sdf.iloc[idx] raises IndexError at
\* the first idx that is no row of sdf
validate_data_samples_raises(csv_df, sdf, sample_size) ==
    /\ CommonColumns(csv_df, sdf) # <<>>
    /\ validate_sample_size(csv_df, sample_size) > Len(sdf.rows)

\* validate_data_samples, lines 223-229: the row indices iloc is asked for
validate_data_samples_reads(csv_df, sdf, sample_size) ==
    LET n    == validate_sample_size(csv_df, sample_size)
        idxs == IF CommonColumns(csv_df, sdf) = <<>> THEN {}
                ELSE IF n > Len(sdf.rows) THEN Range(Len(sdf.rows) + 1)
                ELSE Range(n)
    IN  [reference |-> idxs, candidate |-> idxs]

\* validate_data_samples, lines 213-254, when it does not raise
validate_data_samples(csv_df, sdf, sample_size) ==
    LET n      == validate_sample_size(csv_df, sample_size)
        common == CommonColumns(csv_df, sdf)
        pairs  == LoopPairs(n, Len(common))
        Differs(p) == IsCloseMismatch(Cell(csv_df, p[1], common[p[2]]),
                                      Cell(sdf, p[1], common[p[2]]))
        bad    == SelectSeq(pairs, Differs)
    IN  [sample_size |-> n,
         mismatches  |-> [i \in 1..Len(bad) |-> [row |-> bad[i][1], column |-> common[bad[i][2]]]]]

SeqToSet(seq) == {seq[i] : i \in 1..Len(seq)}

\* generate_validation_report, lines 266-412, when validate_data_samples
\* does not raise
generate_validation_report(csv_df, sdf) ==
    LET csv_rows   == Len(csv_df.rows)
        sf_rows    == Len(sdf.rows)
        row_match  == csv_rows = sf_rows
        csv_cols   == Len(csv_df.columns)
        sf_cols    == Len(sdf.columns)
        col_match  == csv_cols = sf_cols
        missing    == SeqToSet(csv_df.columns) \ SeqToSet(sdf.columns)
        extra      == SeqToSet(sdf.columns) \ SeqToSet(csv_df.columns)
        matching   == SeqToSet(csv_df.columns) \cap SeqToSet(sdf.columns)
        dtypes     == dtype_mismatches(csv_df, sdf)
        nulls      == null_differences(csv_df, sdf)
        samples    == validate_data_samples(csv_df, sdf, ValidateSampleSize)
        NotInSf(col) == ~HasColumn(sdf, col)
        header_issues == SelectSeq(csv_df.columns, NotInSf)
        passed     == /\ row_match
                      /\ col_match
                      /\ missing = {}
                      /\ extra = {}
                      /\ dtypes = <<>>
                      /\ nulls = <<>>
                      /\ samples.mismatches = <<>>
                      /\ header_issues = <<>>
    IN  [validations |->
            [row_count |-> [csv_rows |-> csv_rows, snowflake_rows |-> sf_rows,
                            match |-> row_match, difference |-> sf_rows - csv_rows],
             column_count |-> [csv_columns |-> csv_cols, snowflake_columns |-> sf_cols,
                               match |-> col_match, difference |-> sf_cols - csv_cols],
             column_names |-> [matching |-> matching,
                               missing_in_snowflake |-> missing,
                               extra_in_snowflake |-> extra],
             data_types |-> [mismatches |-> dtypes],
             null_counts |-> [differences |-> nulls],
             data_samples |-> samples,
             header_check |-> [issues |-> header_issues, passed |-> header_issues = <<>>]],
         overall_status |-> IF passed THEN "PASSED" ELSE "FAILED"]

----------------------------------------------------------------------------
(* complete_data_comparison.py: create_comparison_report, one table *)

\* line 223: max_rows = min(len(csv_df), len(xdf))
complete_max_rows(csv_df, xdf) == Min(Len(csv_df.rows), Len(xdf.rows))

\* lines 228-233: the row indices iloc is asked for
complete_reads(csv_df, xdf) ==
    LET n == complete_max_rows(csv_df, xdf)
    IN  [reference |-> IF csv_df.columns = <<>> THEN {} ELSE Range(n),
         candidate |-> IF CommonColumns(csv_df, xdf) = <<>> THEN {} ELSE Range(n)]

\* lines 219-283: the table's entry of summary_data and its diff_cells
complete_table_comparison(csv_df, xdf) ==
    LET n     == complete_max_rows(csv_df, xdf)
        pairs == LoopPairs(n, Len(csv_df.columns))
        Differs(p) ==
            LET col == csv_df.columns[p[2]]
            IN  compare_values_complete(
                    Cell(csv_df, p[1], col),
                    IF HasColumn(xdf, col) THEN Cell(xdf, p[1], col) ELSE None)
        bad   == SelectSeq(pairs, Differs)
    IN  [CSV_Rows             |-> Len(csv_df.rows),
         Excel_Rows           |-> Len(xdf.rows),
         Total_Cells_Compared |-> Len(pairs),
         Different_Cells      |-> Len(bad),
         Matching_Cells       |-> Len(pairs) - Len(bad),
         diff_cells           |-> [i \in 1..Len(bad) |->
                                     [row |-> bad[i][1] + 2, column_name |-> csv_df.columns[bad[i][2]]]]]

----------------------------------------------------------------------------
(* utils/data_validator.py: DataValidator.validate_row_count *)

validate_row_count(powerbi_df, snowflake_df) ==
    LET powerbi_rows   == Len(powerbi_df.rows)
        snowflake_rows == Len(snowflake_df.rows)
    IN  [test            |-> "Row Count Validation",
         powerbi_count   |-> powerbi_rows,
         snowflake_count |-> snowflake_rows,
         match           |-> powerbi_rows = snowflake_rows,
         difference      |-> Abs(powerbi_rows - snowflake_rows)]

\* str(df[col].dtype) of a column built from Python values: whole numbers
\* only give int64, numbers with absent cells or fractions give float64,
\* anything else (text, no rows, absent cells only) gives object
Dtype(df, name) ==
    LET cells == [i \in 1..Len(df.rows) |-> df.rows[i][ColIndex(df, name)]]
    IN  IF cells # <<>> /\ \A i \in 1..Len(cells) : IsNum(cells[i]) /\ cells[i].isint
        THEN "int64"
        ELSE IF /\ \E i \in 1..Len(cells) : IsNum(cells[i])
                /\ \A i \in 1..Len(cells) : IsNum(cells[i]) \/ IsNa(cells[i])
             THEN "float64"
             ELSE "object"

\* lines 55-95: DataValidator.validate_columns
validate_columns(powerbi_df, snowflake_df) ==
    LET powerbi_cols   == SeqToSet(powerbi_df.columns)
        snowflake_cols == SeqToSet(snowflake_df.columns)
    IN  [test           |-> "Column Validation",
         common_columns |-> powerbi_cols \cap snowflake_cols,
         powerbi_only   |-> powerbi_cols \ snowflake_cols,
         snowflake_only |-> snowflake_cols \ powerbi_cols,
         match          |-> powerbi_cols = snowflake_cols]

\* lines 97-138: DataValidator.validate_data_types
validate_data_types(powerbi_df, snowflake_df) ==
    LET common_cols == SeqToSet(powerbi_df.columns) \cap SeqToSet(snowflake_df.columns)
        type_mismatches ==
            {col \in common_cols : Dtype(powerbi_df, col) # Dtype(snowflake_df, col)}
    IN  [test       |-> "Data Type Validation",
         mismatches |-> type_mismatches,
         match      |-> type_mismatches = {}]

\* lines 140-179: DataValidator.validate_null_values
validate_null_values(powerbi_df, snowflake_df) ==
    LET common_cols == SeqToSet(powerbi_df.columns) \cap SeqToSet(snowflake_df.columns)
        discrepancies ==
            {col \in common_cols : NullCount(powerbi_df, col) # NullCount(snowflake_df, col)}
    IN  [test          |-> "Null Value Validation",
         discrepancies |-> discrepancies,
         match         |-> discrepancies = {}]

\* df.duplicated().sum(): the rows equal to an earlier row
Duplicated(df) ==
    Cardinality({i \in 1..Len(df.rows) : \E j \in 1..(i - 1) : df.rows[j] = df.rows[i]})

\* lines 181-208: DataValidator.validate_duplicates
validate_duplicates(powerbi_df, snowflake_df) ==
    [test                 |-> "Duplicate Row Validation",
     powerbi_duplicates   |-> Duplicated(powerbi_df),
     snowflake_duplicates |-> Duplicated(snowflake_df),
     match                |-> Duplicated(powerbi_df) = Duplicated(snowflake_df)]

\* the numbers of a column, absent cells dropped: df[col].dropna()
RECURSIVE SumCells(_)
SumCells(cells) ==
    IF cells = <<>> THEN 0
    ELSE (IF IsNum(Head(cells)) THEN Head(cells).v ELSE 0) + SumCells(Tail(cells))

ColumnSum(df, name) ==
    SumCells([i \in 1..Len(df.rows) |-> df.rows[i][ColIndex(df, name)]])

ColumnCount(df, name) ==
    Cardinality({i \in 1..Len(df.rows) : IsNum(df.rows[i][ColIndex(df, name)])})

\* tolerance of comparison_rules, 0.01, as its inverse
MeanToleranceInverse == 100

\* lines 219-233, one column: abs(pb_mean - sf_mean) / pb_mean <= tolerance,
\* with the means as sum / count; a Snowflake column without numbers has the
\* mean nan, and no comparison with nan is true
within_tolerance(powerbi_df, snowflake_df, col) ==
    LET pb_sum == ColumnSum(powerbi_df, col)
        pb_n   == ColumnCount(powerbi_df, col)
        sf_sum == ColumnSum(snowflake_df, col)
        sf_n   == ColumnCount(snowflake_df, col)
    IN  IF pb_sum = 0 THEN TRUE
        ELSE IF sf_n = 0 THEN FALSE
        ELSE IF pb_sum > 0
             THEN Abs(pb_sum * sf_n - sf_sum * pb_n) * MeanToleranceInverse <= pb_sum * sf_n
             ELSE TRUE

\* lines 210-262: DataValidator.validate_numeric_values
validate_numeric_values(powerbi_df, snowflake_df) ==
    LET numeric_cols ==
            {col \in SeqToSet(powerbi_df.columns) :
                Dtype(powerbi_df, col) \in {"int64", "float64"}}
        common_numeric == numeric_cols \cap SeqToSet(snowflake_df.columns)
    IN  [test    |-> "Numeric Value Validation",
         outside |-> {col \in common_numeric :
                        ~within_tolerance(powerbi_df, snowflake_df, col)},
         match   |-> \A col \in common_numeric :
                        within_tolerance(powerbi_df, snowflake_df, col)]

\* lines 291-300: the summary of run_all_validations
summary(validation_results) ==
    LET total_tests  == Cardinality(DOMAIN validation_results)
        passed_tests == Cardinality({k \in DOMAIN validation_results :
                                        validation_results[k].match})
    IN  [total_tests |-> total_tests,
         passed      |-> passed_tests,
         failed      |-> total_tests - passed_tests,
         pass_rate   |-> IF total_tests > 0
                         THEN (passed_tests * 100 * Scale) \div total_tests ELSE 0,
         details     |-> validation_results]

\* lines 264-315: DataValidator.run_all_validations with every rule of
\* comparison_rules enabled; pass_rate in units of 1/Scale
run_all_validations(powerbi_df, snowflake_df) ==
    summary(
        [row_count      |-> validate_row_count(powerbi_df, snowflake_df),
         columns        |-> validate_columns(powerbi_df, snowflake_df),
         data_types     |-> validate_data_types(powerbi_df, snowflake_df),
         null_values    |-> validate_null_values(powerbi_df, snowflake_df),
         duplicates     |-> validate_duplicates(powerbi_df, snowflake_df),
         numeric_values |-> validate_numeric_values(powerbi_df, snowflake_df)])

\* tests/test_snowflake_validation.py line 224: the pass rate the test asks for
PassRateThreshold == 80

\* tests/test_snowflake_validation.py line 224: passed = pass_rate >= 80
validation_passed(validation_summary) ==
    validation_summary.pass_rate >= PassRateThreshold * Scale

----------------------------------------------------------------------------
(* The components at rest *)

NormIdle ==
    /\ nfn = "idle" /\ nraw = None /\ nout1 = None /\ nout2 = None /\ npc = "idle"

MapIdle ==
    /\ excel_columns = <<>> /\ sf_columns = <<>> /\ column_mapping = <<>>
    /\ missing_in_sf = <<>> /\ extra_in_sf = <<>> /\ mpc = "idle"

CellIdle ==
    /\ cfn = "idle" /\ cval1 = None /\ cval2 = None /\ cshift = 0
    /\ cfwd = FALSE /\ cbwd = FALSE /\ cshifted = FALSE /\ cellpc = "idle"

NoComparison == [overall_status |-> "NONE"]
NoReads      == [reference |-> {}, candidate |-> {}]

CmpIdle ==
    /\ script = "idle" /\ excel_df = [columns |-> <<>>, rows |-> <<>>]
    /\ sf_df = [columns |-> <<>>, rows |-> <<>>]
    /\ comparison = NoComparison /\ reads = NoReads /\ saved = <<>> /\ cpc = "idle"

NoReport == [written |-> FALSE, tables |-> <<>>, all_match |-> FALSE, files_checked |-> 0]

BatchIdle ==
    /\ bscript = "idle" /\ tables = <<>> /\ table_idx = 1 /\ all_comparisons = <<>>
    /\ report = NoReport /\ returncode = <<>>
    /\ steps_completed = <<>> /\ steps_failed = <<>> /\ bpc = "idle"

NoTable == [columns |-> <<>>, rows |-> <<>>]

LoadIdle ==
    /\ loader = "idle" /\ raw = NoTable /\ ldf = <<>> /\ lpc = "idle"

ReportsIdle ==
    /\ validation_reports = {} /\ now = 0 /\ runs = 0 /\ earlier = {}

LoggerIdle ==
    /\ instance = <<>> /\ instances_made = 0 /\ initialized = FALSE /\ setup_runs = 0
    /\ handlers = <<>> /\ constructed = <<>> /\ file_records = <<>>
    /\ console_records = <<>>

ConnIdle ==
    /\ manager = "idle" /\ connection = "None" /\ cursor = "None" /\ query_cursors = <<>>
    /\ block = "idle" /\ propagated = "None" /\ close_calls = 0

DetectIdle ==
    /\ file_mappings = <<>> /\ mapping_idx = 0 /\ all_mismatches = <<>>
    /\ summary_data = <<>> /\ workbook = <<>>

WorkflowIdle ==
    /\ runner = "idle" /\ include_csv_comparison = FALSE /\ present = {} /\ wf_step = 0
    /\ attempted = <<>> /\ results = <<>> /\ final_status = "NONE"

----------------------------------------------------------------------------
(* Value normalisation applied once and twice to a raw cell value *)

InitNormalize ==
    /\ \/ /\ nfn \in Normalizers
          /\ nraw \in RawValues
          /\ npc = "raw"
       \/ /\ nfn \in Normalizers \cup ColumnNormalizers
          /\ nraw \in PercentColumns
          /\ npc = "column"
    /\ nout1 = None /\ nout2 = None
    /\ MapIdle /\ CellIdle /\ CmpIdle /\ BatchIdle /\ LoadIdle /\ ReportsIdle
    /\ DetectIdle /\ WorkflowIdle /\ LoggerIdle /\ ConnIdle

NormalizeOnce ==
    /\ npc = "raw"
    /\ nout1' = Normalize(nfn, nraw)
    /\ npc' = "once"
    /\ UNCHANGED <<nfn, nraw, nout2, mapVars, cellVars, cmpVars, batchVars, loadVars, reportVars,
                   wfVars, logVars, connVars, detVars>>

NormalizeTwice ==
    /\ npc = "once"
    /\ nout2' = Normalize(nfn, nout1)
    /\ npc' = "twice"
    /\ UNCHANGED <<nfn, nraw, nout1, mapVars, cellVars, cmpVars, batchVars, loadVars, reportVars,
                   wfVars, logVars, connVars, detVars>>

\* a script cleans one column of a loaded table
CleanColumn ==
    /\ npc = "column"
    /\ nout1' = NormalizeColumn(nfn, nraw)
    /\ npc' = "cleaned"
    /\ UNCHANGED <<nfn, nraw, nout2, mapVars, cellVars, cmpVars, batchVars, loadVars, reportVars,
                   wfVars, logVars, connVars, detVars>>

NextNormalize == NormalizeOnce \/ NormalizeTwice \/ CleanColumn

SpecNormalize == InitNormalize /\ [][NextNormalize]_vars

----------------------------------------------------------------------------
(* Schema mapping of two column lists *)

\* the headers "Claim Form Type" and "PMPM YoY%" of the Excel exports
ClaimFormType ==
    <<"C", "l", "a", "i", "m", " ", "F", "o", "r", "m", " ", "T", "y", "p", "e">>
PmpmYoY ==
    <<"P", "M", "P", "M", " ", "Y", "o", "Y", "%">>

\* the Snowflake names "CLAIM_FORM_TYPE" and "PMPM_YOY_PERCENT", and the former
\* in lower case
CLAIM_FORM_TYPE ==
    <<"C", "L", "A", "I", "M", "_", "F", "O", "R", "M", "_", "T", "Y", "P", "E">>
PMPM_YOY_PERCENT ==
    <<"P", "M", "P", "M", "_", "Y", "O", "Y", "_">> \o PERCENT
claim_form_type ==
    <<"c", "l", "a", "i", "m", "_", "f", "o", "r", "m", "_", "t", "y", "p", "e">>

\* Excel column names, already trimmed by load_excel_data (line 110)
RefNames ==
    { <<"A", " ", "B">>, <<"A", "_", "B">>, <<"A", "%">>, <<"A">>,
      ClaimFormType, PmpmYoY }

\* Snowflake column names
CandNames ==
    { <<"A", "_", "B">>, <<"A", "_">> \o PERCENT, <<"A">> \o PERCENT, <<"A">>,
      CLAIM_FORM_TYPE, PMPM_YOY_PERCENT, claim_form_type }

NoDuplicates(seq) == \A i, j \in 1..Len(seq) : seq[i] = seq[j] => i = j

\* the lists of at most MaxCols distinct names
ColumnLists(names) == {cols \in Texts(names, MaxCols) : NoDuplicates(cols)}

InitMapping ==
    /\ excel_columns \in ColumnLists(RefNames)
    /\ sf_columns \in ColumnLists(CandNames)
    /\ column_mapping = <<>> /\ missing_in_sf = <<>> /\ extra_in_sf = <<>>
    /\ mpc = "columns"
    /\ NormIdle /\ CellIdle /\ CmpIdle /\ BatchIdle /\ LoadIdle /\ ReportsIdle
    /\ DetectIdle /\ WorkflowIdle /\ LoggerIdle /\ ConnIdle

\* compare_dataframes, lines 311-341
MapSchemas ==
    /\ mpc = "columns"
    /\ column_mapping' = BuildColumnMapping(StripAll(excel_columns), sf_columns)
    /\ missing_in_sf' = BuildMissing(StripAll(excel_columns), sf_columns)
    /\ extra_in_sf' =
            BuildExtra(BuildColumnMapping(StripAll(excel_columns), sf_columns), sf_columns)
    /\ mpc' = "mapped"
    /\ UNCHANGED <<excel_columns, sf_columns, normVars, cellVars, cmpVars, batchVars, loadVars,
                   reportVars, wfVars, logVars, connVars, detVars>>

NextMapping == MapSchemas

SpecMapping == InitMapping /\ [][NextMapping]_vars

----------------------------------------------------------------------------
(* One pair of cells through a script's cell comparison, forwards, swapped  *)
(* and with both numbers moved by the same amount                           *)

CellValues ==
    { None, NaN,
      Str(<<"N", "o", "n", "e">>), Str(<<"n", "a", "n">>), Str(<<"a">>), Str(<<"1">>),
      PyInt(0), PyInt(1), PyFloat(1), PyFloat(Scale \div ToleranceInverse),
      PyFloat(Scale \div ToleranceInverse + 1),
      PyInt(RtolInverse - 1), PyInt(RtolInverse) }

CellShifts == {0, RtolInverse * Scale}

Shifted(x, d) == IF IsNum(x) THEN [x EXCEPT !.v = @ + d] ELSE x

InitCell ==
    /\ cfn \in CellFns
    /\ cval1 \in CellValues /\ cval2 \in CellValues
    /\ cshift \in CellShifts
    /\ cfwd = FALSE /\ cbwd = FALSE /\ cshifted = FALSE
    /\ cellpc = "values"
    /\ NormIdle /\ MapIdle /\ CmpIdle /\ BatchIdle /\ LoadIdle /\ ReportsIdle
    /\ DetectIdle /\ WorkflowIdle /\ LoggerIdle /\ ConnIdle

CompareCells ==
    /\ cellpc = "values"
    /\ cfwd' = CellMismatch(cfn, cval1, cval2)
    /\ cbwd' = CellMismatch(cfn, cval2, cval1)
    /\ cshifted' = CellMismatch(cfn, Shifted(cval1, cshift), Shifted(cval2, cshift))
    /\ cellpc' = "compared"
    /\ UNCHANGED <<cfn, cval1, cval2, cshift, normVars, mapVars, cmpVars, batchVars, loadVars,
                   reportVars, wfVars, logVars, connVars, detVars>>

NextCell == CompareCells

SpecCell == InitCell /\ [][NextCell]_vars

----------------------------------------------------------------------------
(* One table through a script: both datasets loaded, compared, reported     *)

Scripts == {"compare_excel_snowflake_reports", "validate_excel_snowflake",
            "complete_data_comparison", "data_validator"}

\* column lists of an Excel export, and of a Snowflake table or a file whose
\* columns carry the Snowflake names
ExcelColumnLists == { << <<"A">> >>, << <<"A">>, <<"B", "%">> >> }
SfColumnLists ==
    { << <<"A">> >>, << <<"A">>, <<"B", "_">> \o PERCENT >>, << <<"A">>, <<"C">> >> }

\* the cells of the first column, and the value a further column is filled with
FirstColumnValues == {None, PyInt(1), PyInt(2)}
FillValues        == {None, PyInt(1)}

\* the datasets over a column list with at most MaxRows rows
DatasetsOver(cols) ==
    UNION { { [columns |-> cols,
               rows |-> [i \in 1..n |->
                            <<first[i]>> \o [j \in 1..(Len(cols) - 1) |-> fill]]]
              : first \in [1..n -> FirstColumnValues], fill \in FillValues }
            : n \in 0..MaxRows }

\* one row more than compare_dataframes samples
LongRows == SampleCap + 1

\* datasets of LongRows rows over the column A, every cell 1 but at most one
\* cell 2: none, the first row, the row after validate_data_samples' sample,
\* the row after compare_dataframes' sample; and one whose last cell is
\* missing
LongDatasets ==
    { [columns |-> << <<"A">> >>,
       rows |-> [i \in 1..LongRows |-> <<IF i = k THEN PyInt(2) ELSE PyInt(1)>>]]
        : k \in {0, 1, ValidateSampleSize + 1, SampleCap + 1} }
    \cup
    { [columns |-> << <<"A">> >>,
       rows |-> [i \in 1..LongRows |-> <<IF i = LongRows THEN None ELSE PyInt(1)>>]] }

Datasets(lists) == UNION {DatasetsOver(cols) : cols \in lists} \cup LongDatasets

\* compare_excel_snowflake_reports reads an Excel export; the other scripts
\* read a file whose columns were renamed to, or already are, the other
\* side's names
ReferenceDatasets(sc) ==
    IF sc = "compare_excel_snowflake_reports" THEN Datasets(ExcelColumnLists)
    ELSE Datasets(SfColumnLists)

InitCompare ==
    /\ script \in Scripts
    /\ excel_df \in ReferenceDatasets(script)
    /\ sf_df \in Datasets(SfColumnLists)
    /\ comparison = NoComparison
    /\ reads = NoReads
    /\ saved = <<>>
    /\ cpc = "loaded"
    /\ NormIdle /\ MapIdle /\ CellIdle /\ BatchIdle /\ LoadIdle /\ ReportsIdle
    /\ DetectIdle /\ WorkflowIdle /\ LoggerIdle /\ ConnIdle

\* compare_excel_snowflake_reports.main, line 653
CompareDataframes ==
    /\ script = "compare_excel_snowflake_reports"
    /\ cpc = "loaded"
    /\ comparison' = compare_dataframes(excel_df, sf_df)
    /\ reads' = compare_dataframes_reads(excel_df, sf_df)
    /\ cpc' = "compared"
    /\ UNCHANGED <<script, excel_df, sf_df, saved, normVars, mapVars, cellVars, batchVars, loadVars,
                   reportVars, wfVars, logVars, connVars, detVars>>

\* validate_excel_snowflake.main, line 552: the report, or the IndexError of
\* validate_data_samples
GenerateValidationReport ==
    /\ script = "validate_excel_snowflake"
    /\ cpc = "loaded"
    /\ reads' = validate_data_samples_reads(excel_df, sf_df, ValidateSampleSize)
    /\ IF validate_data_samples_raises(excel_df, sf_df, ValidateSampleSize)
       THEN /\ comparison' = [overall_status |-> "NONE", raised |-> "IndexError"]
            /\ cpc' = "raised"
       ELSE /\ comparison' = generate_validation_report(excel_df, sf_df)
            /\ cpc' = "compared"
    /\ UNCHANGED <<script, excel_df, sf_df, saved, normVars, mapVars, cellVars, batchVars, loadVars,
                   reportVars, wfVars, logVars, connVars, detVars>>

\* validate_excel_snowflake.main, lines 554-560: the exception is printed, the
\* table has no report and, all_reports being empty, nothing is saved
SkipRaisedTable ==
    /\ script = "validate_excel_snowflake"
    /\ cpc = "raised"
    /\ cpc' = "done"
    /\ UNCHANGED <<script, excel_df, sf_df, comparison, reads, saved,
                   normVars, mapVars, cellVars, batchVars, loadVars, reportVars, wfVars, logVars,
                   connVars, detVars>>

\* compare_excel_snowflake_reports.main, lines 654-673, and
\* validate_excel_snowflake.main, lines 553-565: the result is appended and
\* the reports are written
SaveReports ==
    /\ script \in {"compare_excel_snowflake_reports", "validate_excel_snowflake"}
    /\ cpc = "compared"
    /\ saved' = Append(saved, comparison)
    /\ cpc' = "done"
    /\ UNCHANGED <<script, excel_df, sf_df, comparison, reads, normVars, mapVars, cellVars,
                   batchVars, loadVars, reportVars, wfVars, logVars, connVars, detVars>>

\* complete_data_comparison.create_comparison_report, lines 218-294: the
\* table is compared and its sheet and summary row are written
CreateComparisonReport ==
    /\ script = "complete_data_comparison"
    /\ cpc = "loaded"
    /\ comparison' = complete_table_comparison(excel_df, sf_df)
    /\ reads' = complete_reads(excel_df, sf_df)
    /\ saved' = Append(saved, complete_table_comparison(excel_df, sf_df))
    /\ cpc' = "done"
    /\ UNCHANGED <<script, excel_df, sf_df, normVars, mapVars, cellVars, batchVars, loadVars,
                   reportVars, wfVars, logVars, connVars, detVars>>

\* DataValidator.validate_row_count: the result is kept in validation_results
ValidateRowCount ==
    /\ script = "data_validator"
    /\ cpc = "loaded"
    /\ comparison' = [row_count |-> validate_row_count(excel_df, sf_df)]
    /\ cpc' = "done"
    /\ UNCHANGED <<script, excel_df, sf_df, reads, saved, normVars, mapVars, cellVars,
                   batchVars, loadVars, reportVars, wfVars, logVars, connVars, detVars>>

\* DataValidator.run_all_validations as test_validate_existing_files calls it
RunAllValidations ==
    /\ script = "data_validator"
    /\ cpc = "loaded"
    /\ comparison' = run_all_validations(excel_df, sf_df)
    /\ cpc' = "validated"
    /\ UNCHANGED <<script, excel_df, sf_df, reads, saved, normVars, mapVars, cellVars,
                   batchVars, loadVars, reportVars, wfVars, logVars, connVars, detVars>>

NextCompare ==
    \/ RunAllValidations
    \/ CompareDataframes
    \/ GenerateValidationReport
    \/ SkipRaisedTable
    \/ SaveReports
    \/ CreateComparisonReport
    \/ ValidateRowCount

SpecCompare == InitCompare /\ [][NextCompare]_vars

----------------------------------------------------------------------------
(* A batch of tables through the loop of a script, one iteration a step.     *)
(* A table is what its loaders meet: ref and cand are "ok", "missing" (no    *)
(* file), "error" (the read fails), "connect_error" or "query_error";        *)
(* queries is what run_snowflake_validation_queries meets; outcome is the    *)
(* overall status its comparison gives.  A part that is never reached is     *)
(* "unused".                                                                 *)

BatchScripts == {"compare_excel_snowflake_reports", "excel_csv_comparator",
                 "detect_csv_excel_mismatches"}

Verdicts == {"PASSED", "FAILED"}

TableEnv(r, c, q, o) == [ref |-> r, cand |-> c, queries |-> q, outcome |-> o]

\* compare_excel_snowflake_reports.main: Excel first, then Snowflake, then the
\* validation queries
CompareTableEnvs ==
    {TableEnv(r, "unused", "unused", "unused") : r \in {"missing", "error"}}
    \cup {TableEnv("ok", c, "unused", "unused") : c \in {"connect_error", "query_error"}}
    \cup {TableEnv("ok", "ok", "connect_error", "unused")}
    \cup {TableEnv("ok", "ok", q, o) : q \in {"ok", "query_error"}, o \in Verdicts}

\* detect_mismatches: both files are read before either result is looked at
DetectTableEnvs ==
    {TableEnv(r, c, "unused", "unused") :
        r \in {"ok", "missing", "error"}, c \in {"missing", "error"}}
    \cup {TableEnv(r, "ok", "unused", "unused") : r \in {"missing", "error"}}
    \cup {TableEnv("ok", "ok", "unused", o) : o \in Verdicts}

\* ExcelCSVComparator.compare: the Excel file first, then the CSV file
ComparatorTableEnvs ==
    {TableEnv(r, "unused", "unused", "unused") : r \in {"missing", "error"}}
    \cup {TableEnv("ok", c, "unused", "unused") : c \in {"missing", "error"}}
    \cup {TableEnv("ok", "ok", "unused", o) : o \in Verdicts}

TableEnvs(sc) ==
    CASE sc = "compare_excel_snowflake_reports" -> CompareTableEnvs
      [] sc = "detect_csv_excel_mismatches"     -> DetectTableEnvs
      [] sc = "excel_csv_comparator"            -> ComparatorTableEnvs

\* the configured tables: TABLES, FILE_MAPPINGS, COMPARISON_CONFIG
Batches(sc) == UNION {[1..n -> TableEnvs(sc)] : n \in 1..MaxTables}

\* load_excel_data, lines 94-138: None when the file is missing or the read
\* raises
load_excel_data(env) == IF env.ref = "ok" THEN "df" ELSE "None"

\* load_snowflake_table, lines 140-179: connect_snowflake is called outside
\* the try, a failing query inside it
load_snowflake_table(env) ==
    CASE env.cand = "connect_error" -> "raise"
      [] env.cand = "query_error"   -> "None"
      [] OTHER                      -> "df"

\* run_snowflake_validation_queries, lines 181-268: as load_snowflake_table
run_snowflake_validation_queries(env) ==
    CASE env.queries = "connect_error" -> "raise"
      [] env.queries = "query_error"   -> "None"
      [] OTHER                         -> "results"

\* load_and_clean_csv and load_and_clean_excel: None on any exception
load_and_clean(outcome) == IF outcome = "ok" THEN "df" ELSE "None"

\* ExcelCSVComparator.load_excel and load_csv: FileNotFoundError for a missing
\* file, whatever the reader raises otherwise
comparator_load(outcome) ==
    CASE outcome = "missing" -> "FileNotFoundError"
      [] outcome = "error"   -> "Exception"
      [] OTHER               -> "df"

\* the entry a compared table leaves in all_comparisons, summary_data, results
Compared_Table(idx, env) == [table |-> idx, overall_status |-> env.outcome]

InitBatch ==
    /\ bscript \in BatchScripts
    /\ tables \in Batches(bscript)
    /\ table_idx = 1
    /\ all_comparisons = <<>>
    /\ report = NoReport
    /\ returncode = <<>>
    /\ steps_completed = <<>> /\ steps_failed = <<>>
    /\ bpc = "loop"
    /\ NormIdle /\ MapIdle /\ CellIdle /\ CmpIdle /\ LoadIdle /\ ReportsIdle
    /\ DetectIdle /\ WorkflowIdle /\ LoggerIdle /\ ConnIdle

\* compare_excel_snowflake_reports.main, lines 625-654: one table; an exception
\* of a loader leaves main and ends the process with status 1
MainLoopTable ==
    /\ bscript = "compare_excel_snowflake_reports"
    /\ bpc = "loop"
    /\ table_idx <= Len(tables)
    /\ LET env   == tables[table_idx]
           Skip  == /\ table_idx' = table_idx + 1
                    /\ UNCHANGED <<all_comparisons, returncode, bpc>>
           Crash == /\ returncode' = <<1>>
                    /\ bpc' = "crashed"
                    /\ UNCHANGED <<table_idx, all_comparisons>>
       IN  IF load_excel_data(env) = "None" THEN Skip
           ELSE IF load_snowflake_table(env) = "raise" THEN Crash
           ELSE IF load_snowflake_table(env) = "None" THEN Skip
           ELSE IF run_snowflake_validation_queries(env) = "raise" THEN Crash
           ELSE /\ all_comparisons' = Append(all_comparisons,
                                              Compared_Table(table_idx, env))
                /\ table_idx' = table_idx + 1
                /\ UNCHANGED <<returncode, bpc>>
    /\ UNCHANGED <<bscript, tables, report, steps_completed, steps_failed,
                   normVars, mapVars, cellVars, cmpVars,
                   loadVars, reportVars, wfVars, logVars, connVars, detVars>>

\* compare_excel_snowflake_reports.main, lines 656-709: the reports, when a
\* table was compared, and the return, which ends the process with status 0
MainReports ==
    /\ bscript = "compare_excel_snowflake_reports"
    /\ bpc = "loop"
    /\ table_idx > Len(tables)
    /\ report' = IF all_comparisons # <<>>
                 THEN [written |-> TRUE, tables |-> all_comparisons,
                       all_match |-> FALSE, files_checked |-> Len(all_comparisons)]
                 ELSE report
    /\ returncode' = <<0>>
    /\ bpc' = "done"
    /\ UNCHANGED <<bscript, tables, table_idx, all_comparisons, steps_completed,
                   steps_failed, normVars, mapVars, cellVars, cmpVars,
                   loadVars, reportVars, wfVars, logVars, connVars, detVars>>

\* ValidationWorkflow.run_script and print_step_result for step 3: the step
\* is a success when the script's return code is 0
RunScript ==
    /\ bscript = "compare_excel_snowflake_reports"
    /\ bpc \in {"done", "crashed"}
    /\ IF returncode = <<0>>
       THEN /\ steps_completed' = Append(steps_completed, "Excel vs Snowflake Validation")
            /\ UNCHANGED steps_failed
       ELSE /\ steps_failed' = Append(steps_failed, "Excel vs Snowflake Validation")
            /\ UNCHANGED steps_completed
    /\ bpc' = "recorded"
    /\ UNCHANGED <<bscript, tables, table_idx, all_comparisons, report, returncode,
                   normVars, mapVars, cellVars, cmpVars,
                   loadVars, reportVars, wfVars, logVars, connVars, detVars>>

\* detect_mismatches, lines 131-271: one mapping; summary_data gets the
\* table's status when both files loaded
DetectLoopTable ==
    /\ bscript = "detect_csv_excel_mismatches"
    /\ bpc = "loop"
    /\ table_idx <= Len(tables)
    /\ LET env == tables[table_idx]
       IN  IF load_and_clean(env.ref) = "None" \/ load_and_clean(env.cand) = "None"
           THEN UNCHANGED all_comparisons
           ELSE all_comparisons' = Append(all_comparisons, Compared_Table(table_idx, env))
    /\ table_idx' = table_idx + 1
    /\ UNCHANGED <<bscript, tables, report, returncode, steps_completed, steps_failed,
                   bpc, normVars, mapVars, cellVars, cmpVars,
                   loadVars, reportVars, wfVars, logVars, connVars, detVars>>

\* detect_mismatches, lines 273-314: the workbook; with all_mismatches empty
\* its first sheet says that all files match and counts FILE_MAPPINGS
DetectReport ==
    /\ bscript = "detect_csv_excel_mismatches"
    /\ bpc = "loop"
    /\ table_idx > Len(tables)
    /\ LET mismatched ==
               SelectSeq(all_comparisons, LAMBDA c : c.overall_status = "FAILED")
       IN  report' = [written |-> TRUE, tables |-> all_comparisons,
                      all_match |-> mismatched = <<>>,
                      files_checked |-> IF mismatched = <<>> THEN Len(tables)
                                        ELSE Len(all_comparisons)]
    /\ returncode' = <<0>>
    /\ bpc' = "done"
    /\ UNCHANGED <<bscript, tables, table_idx, all_comparisons, steps_completed,
                   steps_failed, normVars, mapVars, cellVars, cmpVars,
                   loadVars, reportVars, wfVars, logVars, connVars, detVars>>

\* ExcelCSVComparator.compare_all_tables, lines 314-322: one table; both
\* except clauses skip it
CompareAllTablesTable ==
    /\ bscript = "excel_csv_comparator"
    /\ bpc = "loop"
    /\ table_idx <= Len(tables)
    /\ LET env == tables[table_idx]
       IN  IF comparator_load(env.ref) = "df" /\ comparator_load(env.cand) = "df"
           THEN all_comparisons' = Append(all_comparisons, Compared_Table(table_idx, env))
           ELSE UNCHANGED all_comparisons
    /\ table_idx' = table_idx + 1
    /\ UNCHANGED <<bscript, tables, report, returncode, steps_completed, steps_failed,
                   bpc, normVars, mapVars, cellVars, cmpVars,
                   loadVars, reportVars, wfVars, logVars, connVars, detVars>>

\* ExcelCSVComparator.compare_all_tables, lines 324-327, and
\* _print_overall_summary: the printed summary of the tables in results
CompareAllTablesSummary ==
    /\ bscript = "excel_csv_comparator"
    /\ bpc = "loop"
    /\ table_idx > Len(tables)
    /\ LET matching == SelectSeq(all_comparisons, LAMBDA c : c.overall_status = "PASSED")
       IN  report' = [written |-> TRUE, tables |-> all_comparisons,
                      all_match |-> Len(matching) = Len(all_comparisons),
                      files_checked |-> Len(all_comparisons)]
    /\ bpc' = "done"
    /\ UNCHANGED <<bscript, tables, table_idx, all_comparisons, returncode,
                   steps_completed, steps_failed, normVars, mapVars, cellVars, cmpVars,
                   loadVars, reportVars, wfVars, logVars, connVars, detVars>>

NextBatch ==
    \/ MainLoopTable
    \/ MainReports
    \/ RunScript
    \/ DetectLoopTable
    \/ DetectReport
    \/ CompareAllTablesTable
    \/ CompareAllTablesSummary

SpecBatch == InitBatch /\ [][NextBatch]_vars

----------------------------------------------------------------------------
(* The whole model: one of the five components runs *)

----------------------------------------------------------------------------
(* Loaders: the table a reader or a cursor gave, and the dataset returned *)

\* str.contains(sub): sub occurs in s
ContainsText(s, sub) ==
    \E i \in 1..(Len(s) - Len(sub) + 1) : SubSeq(s, i, i + Len(sub) - 1) = sub

AppliedFilters      == <<"A", "p", "p", "l", "i", "e", "d", " ", "f", "i", "l", "t", "e", "r", "s">>
AppliedFiltersColon == <<"A", "p", "p", "l", "i", "e", "d", " ", "f", "i", "l", "t", "e", "r", "s", ":">>

\* DataFrame.dropna(how='all') keeps a row with a cell that is not missing
NotAllNa(row) == \E j \in 1..Len(row) : ~IsNa(row[j])

\* the row labels, ascending, of the rows a boolean mask keeps
RECURSIVE KeptIndex(_, _)
KeptIndex(mask, from) ==
    IF from > Len(mask) THEN <<>>
    ELSE (IF mask[from] THEN <<from - 1>> ELSE <<>>) \o KeptIndex(mask, from + 1)

\* the dataset made of the rows of the labels kept; index holds the labels
\* before reset_index(drop=True)
TakeRows(columns, rows, index) ==
    [columns |-> columns,
     rows    |-> [k \in 1..Len(index) |-> rows[index[k] + 1]],
     index   |-> index]

\* compare_excel_snowflake_reports.py: load_excel_data, lines 107-127, after
\* pd.read_excel: column names stripped, every cell through clean_excel_value
\* and missing values to None, then rows all missing dropped, then rows whose
\* first cell contains 'Applied filters' in any letter case
load_excel_data_rows(sheet) ==
    LET columns == StripAll(sheet.columns)
        cleaned == [i \in 1..Len(sheet.rows) |->
                       [j \in 1..Len(sheet.rows[i]) |->
                           LET c == clean_excel_value(sheet.rows[i][j])
                           IN  IF IsNa(c) THEN None ELSE c]]
        keep(row) == /\ NotAllNa(row)
                     /\ ~ContainsText(Lower(PyStr(row[1])), Lower(AppliedFilters))
    IN  TakeRows(columns, cleaned, KeptIndex([i \in 1..Len(cleaned) |-> keep(cleaned[i])], 1))

\* complete_data_comparison.py: get_csv_data, lines 64-76, after pd.read_csv
get_csv_data(sheet) ==
    LET columns == StripAll(sheet.columns)
        keep(row) == /\ NotAllNa(row)
                     /\ ~ContainsText(Lower(PyStr(row[1])), Lower(AppliedFilters))
    IN  TakeRows(columns, sheet.rows, KeptIndex([i \in 1..Len(sheet.rows) |-> keep(sheet.rows[i])], 1))

\* datacompy_validation/excel_csv_comparator.py: _clean_dataframe, lines
\* 88-105, for an Excel sheet: the marker is 'Applied filters:' in this letter
\* case; column names are stripped and upper-cased
clean_dataframe(sheet) ==
    LET columns == [j \in 1..Len(sheet.columns) |-> Upper(Strip(sheet.columns[j]))]
        keep(row) == /\ NotAllNa(row)
                     /\ ~ContainsText(PyStr(row[1]), AppliedFiltersColon)
    IN  TakeRows(columns, sheet.rows, KeptIndex([i \in 1..Len(sheet.rows) |-> keep(sheet.rows[i])], 1))

\* utils/snowflake_connector.py: SnowflakeConnector.execute_query, lines
\* 68-102: pd.DataFrame() when fetchall() returned no row (no cell here is
\* of type bytes)
execute_query(result) ==
    IF result.rows # <<>>
    THEN [columns |-> result.columns, rows |-> result.rows,
          index |-> [k \in 1..Len(result.rows) |-> k - 1]]
    ELSE [columns |-> <<>>, rows |-> <<>>, index |-> <<>>]

\* compare_excel_snowflake_reports.py: load_snowflake_table, lines 156-165:
\* pd.DataFrame(rows, columns=columns)
load_snowflake_table_rows(result) ==
    [columns |-> result.columns, rows |-> result.rows,
     index |-> [k \in 1..Len(result.rows) |-> k - 1]]

SpreadsheetLoaders == {"load_excel_data", "get_csv_data", "_clean_dataframe"}
WarehouseLoaders   == {"execute_query", "load_snowflake_table"}

Load(fn, table) ==
    CASE fn = "load_excel_data"      -> load_excel_data_rows(table)
      [] fn = "get_csv_data"         -> get_csv_data(table)
      [] fn = "_clean_dataframe"     -> clean_dataframe(table)
      [] fn = "execute_query"        -> execute_query(table)
      [] fn = "load_snowflake_table" -> load_snowflake_table_rows(table)

\* column names as a file or a result set gives them, some with surrounding
\* whitespace
RawColumnNames == <<<<" ", "A">>, <<"B", " ">>, <<" ", "C", " ">>, <<"D">>>>

\* first cells: missing, a label, the filter description of an export in
\* three spellings, and a label that holds the marker once its comma is gone
FirstCells ==
    {NaN, Str(<<"a">>), Str(AppliedFilters), Str(AppliedFiltersColon),
     Str(Lower(AppliedFilters)), Str(<<"A", "p", "p", "l", "i", "e", "d", ",", " ", "f", "i", "l", "t", "e", "r", "s">>)}

OtherCells == {NaN, Str(<<"a">>)}

RawRows(width) ==
    {<<f>> \o rest : f \in FirstCells, rest \in [1..(width - 1) -> OtherCells]}

RawTables ==
    UNION {{[columns |-> SubSeq(RawColumnNames, 1, w), rows |-> rs] :
                rs \in UNION {[1..n -> RawRows(w)] : n \in 0..MaxRows}} :
           w \in 1..Min(MaxCols, Len(RawColumnNames))}

InitLoad ==
    /\ loader \in SpreadsheetLoaders \cup WarehouseLoaders
    /\ raw \in RawTables
    /\ ldf = <<>>
    /\ lpc = "read"
    /\ NormIdle /\ MapIdle /\ CellIdle /\ CmpIdle /\ BatchIdle /\ ReportsIdle
    /\ DetectIdle /\ WorkflowIdle /\ LoggerIdle /\ ConnIdle

\* the loader returns its dataset
LoadTable ==
    /\ lpc = "read"
    /\ ldf' = <<Load(loader, raw)>>
    /\ lpc' = "returned"
    /\ UNCHANGED <<loader, raw, normVars, mapVars, cellVars, cmpVars, batchVars, reportVars,
                   wfVars, logVars, connVars, detVars>>

NextLoad == LoadTable

SpecLoad == InitLoad /\ [][NextLoad]_vars

----------------------------------------------------------------------------
(* compare_excel_snowflake_reports.main over tables that all load: the       *)
(* comparisons of one batch                                                  *)

OneColumn(cells) == [columns |-> << <<"A">> >>, rows |-> [i \in 1..Len(cells) |-> <<cells[i]>>]]

\* the data of a configured table: its Excel export and its Snowflake table
TablePairs ==
    {[excel_df |-> e, sf_df |-> c] :
        e \in {OneColumn(<<PyInt(1)>>), OneColumn(<<PyInt(1), PyInt(2)>>), OneColumn(<<None>>)},
        c \in {OneColumn(<<PyInt(1)>>), OneColumn(<<PyInt(2)>>)}}

LoadedBatches == UNION {[1..n -> TablePairs] : n \in 1..MaxTables}

\* a comparison that inherits the FAILED status of the comparison before it
ComparisonCarriedOver(done, t) ==
    LET own == compare_dataframes(t.excel_df, t.sf_df)
    IN  IF done # <<>> /\ done[Len(done)].overall_status = "FAILED"
        THEN [own EXCEPT !.overall_status = "FAILED"]
        ELSE own

\* main lines 651-653: comparison = compare_dataframes(excel_df, sf_df,
\* table_name); compare_dataframes builds its result in a new dict from its
\* arguments (lines 274-278) and reads nothing of all_comparisons
main_comparison(done, t) == compare_dataframes(t.excel_df, t.sf_df)

\* the comparisons main appends for a batch, in the order of the tables
RECURSIVE MainComparisons(_, _)
MainComparisons(done, tbls) ==
    IF tbls = <<>> THEN done
    ELSE MainComparisons(Append(done, main_comparison(done, Head(tbls))), Tail(tbls))

InitLoadedBatch ==
    /\ bscript = "main"
    /\ tables \in LoadedBatches
    /\ table_idx = 1
    /\ all_comparisons = <<>>
    /\ report = NoReport
    /\ returncode = <<>>
    /\ steps_completed = <<>> /\ steps_failed = <<>>
    /\ bpc = "comparing"
    /\ NormIdle /\ MapIdle /\ CellIdle /\ CmpIdle /\ LoadIdle /\ ReportsIdle
    /\ DetectIdle /\ WorkflowIdle /\ LoggerIdle /\ ConnIdle

\* main lines 625-654 for a table whose loaders work
MainComparesTable ==
    /\ bscript = "main"
    /\ bpc = "comparing"
    /\ table_idx <= Len(tables)
    /\ all_comparisons' = Append(all_comparisons,
                                 main_comparison(all_comparisons, tables[table_idx]))
    /\ table_idx' = table_idx + 1
    /\ UNCHANGED <<bscript, tables, report, returncode, steps_completed, steps_failed, bpc,
                   normVars, mapVars, cellVars, cmpVars, loadVars, reportVars, wfVars, logVars,
                   connVars, detVars>>

NextLoadedBatch == MainComparesTable

SpecLoadedBatch == InitLoadedBatch /\ [][NextLoadedBatch]_vars

----------------------------------------------------------------------------
(* The folder validation_reports/ over several runs of the scripts *)

\* a report file: its name is a prefix and the timestamp
\* datetime.now().strftime('%Y%m%d_%H%M%S'), one per second; its content is
\* told apart by the run that wrote it
ReportFile(prefix, timestamp, run) ==
    [name |-> <<prefix, timestamp>>, content |-> run]

\* pd.ExcelWriter(path) / open(path, 'w'): a file of this name is replaced
WriteFile(dir, file) == {f \in dir : f.name # file.name} \cup {file}

RECURSIVE WriteFiles(_, _)
WriteFiles(dir, files) ==
    IF files = <<>> THEN dir ELSE WriteFiles(WriteFile(dir, Head(files)), Tail(files))

\* compare_excel_snowflake_reports.main, lines 668-676: three reports
CompareReportFiles(timestamp, run) ==
    <<ReportFile("Excel_vs_Snowflake_Validation", timestamp, run),
      ReportFile("Validation_Report", timestamp, run),
      ReportFile("Snowflake_Validation_Queries", timestamp, run)>>

\* complete_data_comparison.create_comparison_report, lines 182-190:
\* output_dir.glob('CSV_vs_Excel_Comparison_ColorCoded_*.xlsx'), unlink each
CleanUpOldFiles(dir) == {f \in dir : f.name[1] # "CSV_vs_Excel_Comparison_ColorCoded"}

InitReports ==
    /\ validation_reports = {}
    /\ now = 1
    /\ runs = 0
    /\ earlier = {}
    /\ NormIdle /\ MapIdle /\ CellIdle /\ CmpIdle /\ BatchIdle /\ LoadIdle
    /\ DetectIdle /\ WorkflowIdle /\ LoggerIdle /\ ConnIdle

\* a second passes between two runs
Tick ==
    /\ now <= runs
    /\ now' = now + 1
    /\ UNCHANGED <<validation_reports, runs, earlier,
                   normVars, mapVars, cellVars, cmpVars, batchVars, loadVars, wfVars, logVars,
                   connVars, detVars>>

\* a run of compare_excel_snowflake_reports.py: reports only when a table
\* was compared (line 657)
RunCompareReports ==
    /\ runs < MaxRuns
    /\ runs' = runs + 1
    /\ \E compared \in BOOLEAN :
          validation_reports' =
              IF compared
              THEN WriteFiles(validation_reports, CompareReportFiles(now, runs'))
              ELSE validation_reports
    /\ earlier' = earlier \cup validation_reports
    /\ UNCHANGED <<now, normVars, mapVars, cellVars, cmpVars, batchVars, loadVars, wfVars, logVars,
                   connVars, detVars>>

\* a run of complete_data_comparison.py, create_comparison_report lines 179-196
RunCompleteComparison ==
    /\ runs < MaxRuns
    /\ runs' = runs + 1
    /\ validation_reports' =
          WriteFile(CleanUpOldFiles(validation_reports),
                    ReportFile("CSV_vs_Excel_Comparison_ColorCoded", now, runs'))
    /\ earlier' = earlier \cup validation_reports
    /\ UNCHANGED <<now, normVars, mapVars, cellVars, cmpVars, batchVars, loadVars, wfVars, logVars,
                   connVars, detVars>>

\* a run of detect_csv_excel_mismatches.py, lines 276-300
RunDetectMismatches ==
    /\ runs < MaxRuns
    /\ runs' = runs + 1
    /\ validation_reports' =
          WriteFile(validation_reports, ReportFile("Data_Mismatches", now, runs'))
    /\ earlier' = earlier \cup validation_reports
    /\ UNCHANGED <<now, normVars, mapVars, cellVars, cmpVars, batchVars, loadVars, wfVars, logVars,
                   connVars, detVars>>

NextReports == Tick \/ RunCompareReports \/ RunCompleteComparison \/ RunDetectMismatches

SpecReports == InitReports /\ [][NextReports]_vars

----------------------------------------------------------------------------
(* The workflow runners: run_complete_validation.py and                     *)
(* run_validation_with_allure.py                                            *)

\* the scripts of the steps, in the order of run_complete_workflow
StepScripts ==
    <<"import_complete_excel_to_snowflake.py", "quick_validation.py",
      "compare_excel_snowflake_reports.py", "snowflake_queries_to_excel.py",
      "complete_data_comparison.py">>

\* the step names ValidationWorkflow records
StepNames ==
    <<"Import Excel to Snowflake", "Quick Validation Check",
      "Excel vs Snowflake Validation", "Export Snowflake SQL Queries",
      "CSV vs Excel Comparison">>

ImportStep  == CHOOSE k \in 1..Len(StepScripts) :
                   StepScripts[k] = "import_complete_excel_to_snowflake.py"
CompareStep == CHOOSE k \in 1..Len(StepScripts) :
                   StepScripts[k] = "compare_excel_snowflake_reports.py"
CsvStep     == CHOOSE k \in 1..Len(StepScripts) :
                   StepScripts[k] = "complete_data_comparison.py"

\* the position after the last step: the final summary
SummaryStep == Len(StepScripts) + 1

Runners == {"ValidationWorkflow", "AllureValidationRunner"}

\* what subprocess.run(..., timeout=300) does: the script exits with status
\* 0 or another status, the timeout expires, or another exception is raised
RunOutcomes == {"exit_0", "exit_nonzero", "TimeoutExpired", "Exception"}

\* print_step_result lines 46-49: the step name joins one of the two lists
print_step_result(completed, failed, step_name, success) ==
    IF success
    THEN [steps_completed |-> Append(completed, step_name), steps_failed |-> failed]
    ELSE [steps_completed |-> completed, steps_failed |-> Append(failed, step_name)]

\* a runner that would leave the workflow at a failed step
StopAtFailedStep(step, success) == IF success THEN step + 1 ELSE SummaryStep + 1

\* run_complete_workflow: the statements of the steps follow one another;
\* the result of a step decides nothing
StepAfter(step, success) == step + 1

\* a step whose script is missing is never recorded
MissingScriptSkipped(step) == FALSE

\* lines 108-110 and 137-139: print_step_result(step_name, False, 0) when
\* the script of the import or of the comparison is missing; lines 126-128,
\* 151-153 and 166-167 only print
MissingScriptRecorded(step) == step \in {ImportStep, CompareStep}

\* a run counted as a success whenever the script ended by itself
SuccessWhenExited(outcome) == outcome \in {"exit_0", "exit_nonzero"}

\* run_script lines 71, 77-87: success = result.returncode == 0; False in
\* both except branches
run_script_success(outcome) == outcome = "exit_0"

\* the steps of a workflow: the CSV comparison only when requested
Planned(csv) == {k \in 1..Len(StepScripts) : k # CsvStep \/ csv}

\* print_final_summary lines 223-230
FinalStatus(failed) ==
    IF failed = <<>> THEN "ALL VALIDATIONS COMPLETED SUCCESSFULLY"
    ELSE "COMPLETED WITH FAILED STEP(S)"

InitWorkflow ==
    /\ runner \in Runners
    /\ include_csv_comparison \in BOOLEAN
    /\ present \in SUBSET {StepScripts[k] : k \in 1..Len(StepScripts)}
    /\ wf_step = 1
    /\ attempted = <<>>
    /\ results = <<>>
    /\ final_status = "NONE"
    /\ NormIdle /\ MapIdle /\ CellIdle /\ CmpIdle /\ BatchIdle /\ LoadIdle
    /\ DetectIdle /\ ReportsIdle /\ LoggerIdle /\ ConnIdle

\* ValidationWorkflow.run_complete_workflow, one step (lines 106-172): a
\* missing script is recorded as failed for the import and the comparison
\* and skipped for the others; otherwise run_script
WorkflowStep ==
    /\ runner = "ValidationWorkflow"
    /\ wf_step \in 1..Len(StepScripts)
    /\ IF wf_step \notin Planned(include_csv_comparison)
       THEN /\ wf_step' = wf_step + 1
            /\ UNCHANGED <<steps_completed, steps_failed, attempted>>
       ELSE IF StepScripts[wf_step] \notin present
       THEN /\ wf_step' = wf_step + 1
            /\ IF MissingScriptRecorded(wf_step)
               THEN LET r == print_step_result(steps_completed, steps_failed,
                                               StepNames[wf_step], FALSE)
                    IN  /\ steps_completed' = r.steps_completed
                        /\ steps_failed' = r.steps_failed
               ELSE UNCHANGED <<steps_completed, steps_failed>>
            /\ UNCHANGED attempted
       ELSE \E outcome \in RunOutcomes :
                LET success == run_script_success(outcome)
                    r == print_step_result(steps_completed, steps_failed,
                                           StepNames[wf_step], success)
                IN  /\ steps_completed' = r.steps_completed
                    /\ steps_failed' = r.steps_failed
                    /\ attempted' = Append(attempted, [step |-> wf_step, outcome |-> outcome])
                    /\ wf_step' = StepAfter(wf_step, success)
    /\ UNCHANGED <<runner, include_csv_comparison, present, results, final_status,
                   bscript, tables, table_idx, all_comparisons, report, returncode, bpc,
                   normVars, mapVars, cellVars, cmpVars, loadVars, reportVars, logVars, connVars,
                   detVars>>

\* ValidationWorkflow.print_final_summary
PrintFinalSummary ==
    /\ runner = "ValidationWorkflow"
    /\ wf_step = SummaryStep
    /\ final_status' = FinalStatus(steps_failed)
    /\ wf_step' = SummaryStep + 1
    /\ UNCHANGED <<runner, include_csv_comparison, present, attempted, results,
                   batchVars, normVars, mapVars, cellVars, cmpVars, loadVars, reportVars, logVars,
                   connVars, detVars>>

\* AllureValidationRunner.run_complete_workflow, one step of the loop (lines
\* 301-307): run_validation_step appends a result in every branch; a script
\* that is missing makes the interpreter exit with a status other than 0
AllureStep ==
    /\ runner = "AllureValidationRunner"
    /\ wf_step \in 1..Len(StepScripts)
    /\ IF wf_step \notin Planned(include_csv_comparison)
       THEN /\ wf_step' = wf_step + 1
            /\ UNCHANGED <<attempted, results>>
       ELSE \E outcome \in RunOutcomes :
                /\ (StepScripts[wf_step] \notin present) => outcome = "exit_nonzero"
                /\ LET success == run_script_success(outcome)
                   IN  /\ results' = Append(results,
                              [name |-> StepNames[wf_step],
                               status |-> IF success THEN "passed" ELSE "failed"])
                       /\ attempted' = Append(attempted, [step |-> wf_step, outcome |-> outcome])
                       /\ wf_step' = StepAfter(wf_step, success)
    /\ UNCHANGED <<runner, include_csv_comparison, present, final_status,
                   batchVars, normVars, mapVars, cellVars, cmpVars, loadVars, reportVars, logVars,
                   connVars, detVars>>

\* AllureValidationRunner: attach_validation_reports and print_summary
AllureSummary ==
    /\ runner = "AllureValidationRunner"
    /\ wf_step = SummaryStep
    /\ final_status' = "SUMMARY"
    /\ wf_step' = SummaryStep + 1
    /\ UNCHANGED <<runner, include_csv_comparison, present, attempted, results,
                   batchVars, normVars, mapVars, cellVars, cmpVars, loadVars, reportVars, logVars,
                   connVars, detVars>>

NextWorkflow == WorkflowStep \/ PrintFinalSummary \/ AllureStep \/ AllureSummary

SpecWorkflow == InitWorkflow /\ [][NextWorkflow]_vars

\* the runner is a sequential program: it takes its next step
SpecWorkflowFair == SpecWorkflow /\ WF_vars(NextWorkflow)

----------------------------------------------------------------------------
(* utils/logger.py: PowerBILogger *)

\* the levels of logging, lowest first
Levels == <<"DEBUG", "INFO", "WARNING", "ERROR", "CRITICAL">>

LevelNo(level) == CHOOSE k \in 1..Len(Levels) : Levels[k] = level

\* lines 62-63 and 67-68: the file handler takes DEBUG and above, the
\* console handler INFO and above
HandlerLevel(handler) == IF handler = "FileHandler" THEN "DEBUG" ELSE "INFO"

\* Logger.handle: the handlers, in order, that emit a record of this level
Emitting(hs, level) ==
    SelectSeq(hs, LAMBDA h : LevelNo(level) >= LevelNo(HandlerLevel(h)))

\* a record of this level appended to the records of one kind of handler,
\* once per handler of that kind
RECURSIVE Emit(_, _, _, _)
Emit(records, hs, kind, level) ==
    IF hs = <<>> THEN records
    ELSE Emit(IF Head(hs) = kind THEN Append(records, level) ELSE records,
              Tail(hs), kind, level)

\* an __init__ that sets up the logger at every construction
InitEveryTime(flag) == TRUE

\* __init__ lines 25-26: nothing is done when _initialized is set
InitRuns(flag) == ~flag

\* _setup_logger lines 44-45 and 72-73: the handlers are cleared, then the
\* file handler and the console handler are added
setup_logger_handlers(hs) == <<"FileHandler", "StreamHandler">>

InitLogger ==
    /\ instance = <<>>
    /\ instances_made = 0
    /\ initialized = FALSE
    /\ setup_runs = 0
    /\ handlers = <<>>
    /\ constructed = <<>>
    /\ file_records = <<>>
    /\ console_records = <<>>
    /\ NormIdle /\ MapIdle /\ CellIdle /\ CmpIdle /\ BatchIdle /\ LoadIdle
    /\ DetectIdle /\ ReportsIdle /\ ConnIdle /\ WorkflowIdle

\* PowerBILogger(): __new__ (lines 18-22), then __init__ (lines 24-30) with
\* _setup_logger, which ends by logging "Logger initialized" at INFO
Construct ==
    /\ Len(constructed) + Len(file_records) < MaxCalls
    /\ LET fresh == instance = <<>>
           made  == IF fresh THEN instances_made + 1 ELSE instances_made
           self  == IF fresh THEN made ELSE instance[1]
           flag  == IF fresh THEN FALSE ELSE initialized
           hs    == setup_logger_handlers(handlers)
       IN  /\ instance' = <<self>>
           /\ instances_made' = made
           /\ constructed' = Append(constructed, self)
           /\ initialized' = TRUE
           /\ IF InitRuns(flag)
              THEN /\ setup_runs' = setup_runs + 1
                   /\ handlers' = hs
                   /\ file_records' =
                          Emit(file_records, Emitting(hs, "INFO"), "FileHandler", "INFO")
                   /\ console_records' =
                          Emit(console_records, Emitting(hs, "INFO"), "StreamHandler", "INFO")
              ELSE UNCHANGED <<setup_runs, handlers, file_records, console_records>>
    /\ UNCHANGED <<normVars, mapVars, cellVars, cmpVars, batchVars, loadVars, reportVars,
                   wfVars, connVars, detVars>>

\* debug, info, warning, error, critical (lines 83-101) on the instance
LogMessage ==
    /\ instance # <<>>
    /\ Len(constructed) + Len(file_records) < MaxCalls
    /\ \E k \in 1..Len(Levels) :
          /\ file_records' =
                 Emit(file_records, Emitting(handlers, Levels[k]), "FileHandler", Levels[k])
          /\ console_records' =
                 Emit(console_records, Emitting(handlers, Levels[k]), "StreamHandler",
                      Levels[k])
    /\ UNCHANGED <<instance, instances_made, initialized, setup_runs, handlers, constructed,
                   normVars, mapVars, cellVars, cmpVars, batchVars, loadVars, reportVars,
                   wfVars, connVars, detVars>>

NextLogger == Construct \/ LogMessage

SpecLogger == InitLogger /\ [][NextLogger]_vars

----------------------------------------------------------------------------
(* utils/snowflake_connector.py: SnowflakeConnector as a context manager    *)
(* and the generator snowflake_connection                                   *)

Managers == {"SnowflakeConnector", "snowflake_connection"}

\* what connect() can meet: the connection is made and its cursor opened;
\* snowflake.connector.connect raises; or the connection is made and a later
\* statement of connect() raises (lines 40-53)
ConnectOutcomes == {"connected", "connect_raises", "raises_after_connect"}

\* what execute_query can meet, in the order of its statements (lines 69-102)
QueryOutcomes ==
    {"rows", "no_rows", "cursor_raises", "execute_raises", "fetchall_raises",
     "frame_raises"}

\* connect(), lines 24-60: the fields it leaves and whether it raised
connect(outcome) ==
    CASE outcome = "connected" ->
           [connection |-> "open", cursor |-> "open", raised |-> FALSE]
      [] outcome = "connect_raises" ->
           [connection |-> "None", cursor |-> "None", raised |-> TRUE]
      [] outcome = "raises_after_connect" ->
           [connection |-> "open", cursor |-> "None", raised |-> TRUE]

LeftOpen(handle) == handle

\* close(), lines 169-172: `if self.cursor: self.cursor.close()` and
\* `if self.connection: self.connection.close()`
close_handle(handle) == IF handle = "None" THEN "None" ELSE "closed"

\* execute_query, lines 69-77: the cursor it opens, as the call leaves it.
\* cursor.close() is the statement after fetchall (line 77) and there is no
\* finally clause
query_cursor(outcome) ==
    CASE outcome = "cursor_raises" -> <<>>
      [] outcome \in {"execute_raises", "fetchall_raises"} -> <<"open">>
      [] OTHER -> <<"closed">>

\* execute_query re-raises what it caught (lines 104-111)
query_raises(outcome) == outcome \notin {"rows", "no_rows"}

InitConnector ==
    /\ manager \in Managers
    /\ connection = "None"
    /\ cursor = "None"
    /\ query_cursors = <<>>
    /\ block = "before"
    /\ propagated = "None"
    /\ close_calls = 0
    /\ NormIdle /\ MapIdle /\ CellIdle /\ CmpIdle /\ BatchIdle /\ LoadIdle
    /\ DetectIdle /\ ReportsIdle /\ WorkflowIdle /\ LoggerIdle

\* the with statement is left: __exit__ (line 183) or the finally clause
\* (line 193) calls close(); __exit__ returns None, so the exception goes on
Leave(exception) ==
    /\ block' = "left"
    /\ propagated' = exception
    /\ cursor' = close_handle(cursor)
    /\ connection' = close_handle(connection)
    /\ close_calls' = close_calls + 1

\* `with SnowflakeConnector() as sf_conn:` calls __enter__ (line 179), and
\* when that raises __exit__ is not called; `with snowflake_connection():`
\* runs the generator to its yield inside try/finally (lines 190-193)
Enter ==
    /\ block = "before"
    /\ \E outcome \in ConnectOutcomes :
         LET c == connect(outcome) IN
           IF ~c.raised
             THEN /\ connection' = c.connection
                  /\ cursor' = c.cursor
                  /\ block' = "inside"
                  /\ UNCHANGED <<propagated, close_calls>>
             ELSE IF manager = "SnowflakeConnector"
               THEN /\ connection' = c.connection
                    /\ cursor' = c.cursor
                    /\ block' = "not_entered"
                    /\ propagated' = "connect"
                    /\ UNCHANGED close_calls
               ELSE /\ connection' = close_handle(c.connection)
                    /\ cursor' = close_handle(c.cursor)
                    /\ block' = "not_entered"
                    /\ propagated' = "connect"
                    /\ close_calls' = close_calls + 1
    /\ UNCHANGED <<manager, query_cursors>>
    /\ UNCHANGED <<normVars, mapVars, cellVars, cmpVars, batchVars, loadVars,
                   reportVars, wfVars, logVars, detVars>>

\* sf_conn.execute_query(query) inside the block (validate_snowflake_excel.py
\* lines 226, 247); the caller's block either handles what it raises or, as
\* in run_validation, lets it leave the with statement
ExecuteQuery ==
    /\ block = "inside"
    /\ Len(query_cursors) < MaxCalls
    /\ \E outcome \in QueryOutcomes, handled \in BOOLEAN :
         /\ query_cursors' = query_cursors \o query_cursor(outcome)
         /\ IF query_raises(outcome) /\ ~handled
              THEN Leave("query")
              ELSE UNCHANGED <<connection, cursor, block, propagated, close_calls>>
    /\ UNCHANGED manager
    /\ UNCHANGED <<normVars, mapVars, cellVars, cmpVars, batchVars, loadVars,
                   reportVars, wfVars, logVars, detVars>>

\* the block finishes normally, or another statement of it raises
LeaveBlock ==
    /\ block = "inside"
    /\ \E exception \in {"None", "body"} : Leave(exception)
    /\ UNCHANGED <<manager, query_cursors>>
    /\ UNCHANGED <<normVars, mapVars, cellVars, cmpVars, batchVars, loadVars,
                   reportVars, wfVars, logVars, detVars>>

NextConnector == Enter \/ ExecuteQuery \/ LeaveBlock

SpecConnector == InitConnector /\ [][NextConnector]_vars

----------------------------------------------------------------------------
(* detect_csv_excel_mismatches.py: detect_mismatches over FILE_MAPPINGS,    *)
(* one mapping a step, with the records of all_mismatches and summary_data  *)

\* FILE_MAPPINGS, lines 12-28: the names of the mappings
MappingNames == <<"SPEND_BY_CODE", "SPEND_BY_PRODUCT_TYPE", "SPEND_BY_BILL_TYPE">>

\* a dataset of one row over the given columns
OneRow(cols, cells) == [columns |-> cols, rows |-> <<cells>>]

\* what load_and_clean_csv and load_and_clean_excel return for a mapping:
\* None when the read raised (lines 75-76, 103-104), or the cleaned dataset
CsvFrames ==
    {None,
     OneColumn(<<PyInt(1)>>), OneColumn(<<PyInt(2)>>), OneColumn(<<PyInt(1), PyInt(2)>>),
     OneRow(<< <<"A">>, <<"B">> >>, <<PyInt(1), PyInt(1)>>),
     OneRow(<< <<"A">>, <<"C">> >>, <<PyInt(2), PyInt(2)>>)}
ExcelFrames ==
    {None,
     OneColumn(<<PyInt(1)>>), OneColumn(<<PyInt(1), PyInt(2)>>),
     OneRow(<< <<"A">>, <<"B">> >>, <<PyInt(1), PyInt(1)>>)}

FileMappings ==
    UNION {[1..n -> [df_csv : CsvFrames, df_excel : ExcelFrames]] : n \in 1..MaxTables}

\* lines 161-169, 179-187, 209-217, 239-247: a record of all_mismatches
mismatch(table_name, type, row_idx, col) ==
    [Table_Name |-> table_name, Mismatch_Type |-> type, Row_Index |-> row_idx,
     Column_Name |-> col]

\* line 228: `len(df_csv) == len(df_excel) and
\* len(df_csv.columns) == len(df_excel.columns)`
same_shape(df_csv, df_excel) ==
    /\ Len(df_csv.rows) = Len(df_excel.rows)
    /\ Len(df_csv.columns) = Len(df_excel.columns)

\* lines 232-250: the records of the cells from the k-th on, the cells taken
\* row by row and in df_csv's column order
RECURSIVE value_mismatches(_, _, _, _)
value_mismatches(table_name, df_csv, df_excel, k) ==
    IF k >= Len(df_csv.rows) * Len(df_csv.columns) THEN <<>>
    ELSE LET row_idx == k \div Len(df_csv.columns)
             col == df_csv.columns[(k % Len(df_csv.columns)) + 1]
             differs ==
                 /\ \E j \in 1..Len(df_excel.columns) : df_excel.columns[j] = col
                 /\ ~compare_values_detect(Cell(df_csv, row_idx, col),
                                           Cell(df_excel, row_idx, col))
         IN  (IF differs THEN <<mismatch(table_name, "Data_Value", row_idx, col)>>
              ELSE <<>>)
             \o value_mismatches(table_name, df_csv, df_excel, k + 1)

\* lines 158-257: the records each of the four checks appends
detect_checks(table_name, df_csv, df_excel) ==
    [row_count |->
        IF Len(df_csv.rows) # Len(df_excel.rows)
        THEN <<mismatch(table_name, "Row_Count", "N/A", "N/A")>> ELSE <<>>,
     column_count |->
        IF Len(df_csv.columns) # Len(df_excel.columns)
        THEN <<mismatch(table_name, "Column_Count", "N/A", "N/A")>> ELSE <<>>,
     column_names |->
        IF SeqToSet(df_csv.columns) # SeqToSet(df_excel.columns)
        THEN <<mismatch(table_name, "Column_Names", "N/A", "N/A")>> ELSE <<>>,
     data_value |->
        IF same_shape(df_csv, df_excel)
        THEN value_mismatches(table_name, df_csv, df_excel, 0) ELSE <<>>]

\* the records in the order of the all_mismatches.append calls (lines 170,
\* 188, 218, 248)
appended(checks) ==
    checks.row_count \o checks.column_count \o checks.column_names \o checks.data_value

\* value_mismatches of line 249 in the place of table_mismatches
value_mismatches_only(checks) == Len(checks.data_value)

\* table_mismatches: 0 at line 156, one more at lines 171, 189, 219 and 250
table_mismatches(checks) ==
    Len(checks.row_count) + Len(checks.column_count) + Len(checks.column_names)
        + Len(checks.data_value)

\* lines 260-265: the table's entry of summary_data
summary_entry(table_name, total) ==
    [Table_Name |-> table_name, Total_Mismatches |-> total,
     Status |-> IF total = 0 THEN "PASS" ELSE "FAIL"]

InitDetect ==
    /\ file_mappings \in FileMappings
    /\ mapping_idx = 1
    /\ all_mismatches = <<>>
    /\ summary_data = <<>>
    /\ workbook = <<>>
    /\ NormIdle /\ MapIdle /\ CellIdle /\ CmpIdle /\ BatchIdle /\ LoadIdle
    /\ ReportsIdle /\ WorkflowIdle /\ LoggerIdle /\ ConnIdle

\* lines 133-269: one mapping; `continue` when either file did not load
DetectMapping ==
    /\ mapping_idx >= 1
    /\ mapping_idx <= Len(file_mappings)
    /\ LET m == file_mappings[mapping_idx]
           table_name == MappingNames[mapping_idx]
       IN  IF m.df_csv = None \/ m.df_excel = None
           THEN UNCHANGED <<all_mismatches, summary_data>>
           ELSE LET checks == detect_checks(table_name, m.df_csv, m.df_excel)
                IN  /\ all_mismatches' = all_mismatches \o appended(checks)
                    /\ summary_data' =
                         Append(summary_data,
                                summary_entry(table_name, table_mismatches(checks)))
    /\ mapping_idx' = mapping_idx + 1
    /\ UNCHANGED <<file_mappings, workbook>>
    /\ UNCHANGED <<normVars, mapVars, cellVars, cmpVars, batchVars, loadVars,
                   reportVars, wfVars, logVars, connVars>>

\* lines 282-301: the sheets All_Mismatches and Summary
DetectWritesWorkbook ==
    /\ mapping_idx = Len(file_mappings) + 1
    /\ workbook = <<>>
    /\ workbook' =
         <<[All_Mismatches |->
               IF all_mismatches # <<>> THEN all_mismatches
               ELSE <<[Message |-> "No mismatches found!",
                       Total_Files_Checked |-> Len(file_mappings)]>>,
            Summary |-> summary_data]>>
    /\ UNCHANGED <<file_mappings, mapping_idx, all_mismatches, summary_data>>
    /\ UNCHANGED <<normVars, mapVars, cellVars, cmpVars, batchVars, loadVars,
                   reportVars, wfVars, logVars, connVars>>

NextDetect == DetectMapping \/ DetectWritesWorkbook

SpecDetect == InitDetect /\ [][NextDetect]_vars

----------------------------------------------------------------------------
(* All components *)

Init ==
    \/ InitNormalize \/ InitMapping \/ InitCell \/ InitCompare \/ InitBatch \/ InitLoad
    \/ InitReports \/ InitWorkflow \/ InitLoadedBatch \/ InitLogger \/ InitConnector
    \/ InitDetect

Next ==
    \/ NextNormalize \/ NextMapping \/ NextCell \/ NextCompare \/ NextBatch \/ NextLoad
    \/ NextReports \/ NextWorkflow \/ NextLoadedBatch \/ NextLogger \/ NextConnector
    \/ NextDetect

Spec == Init /\ [][Next]_vars

----------------------------------------------------------------------------
(* Properties of the schema mapping *)

MappingKeys   == {column_mapping[i][1] : i \in 1..Len(column_mapping)}
MappingImages == {column_mapping[i][2] : i \in 1..Len(column_mapping)}

\* C2: the column mapping is one-to-one: no Snowflake column is the image of
\* two different Excel columns.
MappingOneToOne ==
    mpc = "mapped" =>
        \A i, j \in 1..Len(column_mapping) :
            column_mapping[i][2] = column_mapping[j][2] => i = j

\* C10: after mapping, every Excel column is a key of the mapping or listed
\* as missing, never both and never neither, and every Snowflake column is the
\* image of a mapped Excel column or listed as extra, never both and never
\* neither; nothing else is mapped or listed.
ColumnsPartitioned ==
    mpc = "mapped" =>
        /\ \A c \in SeqToSet(excel_columns) :
              (c \in MappingKeys) # (c \in SeqToSet(missing_in_sf))
        /\ \A c \in SeqToSet(sf_columns) :
              (c \in MappingImages) # (c \in SeqToSet(extra_in_sf))
        /\ MappingKeys \cup SeqToSet(missing_in_sf) \subseteq SeqToSet(excel_columns)
        /\ MappingImages \cup SeqToSet(extra_in_sf) \subseteq SeqToSet(sf_columns)

\* a mapping with a mapped, a missing and an extra column at once
ColumnsPartitionedWitness ==
    /\ mpc = "mapped"
    /\ column_mapping # <<>>
    /\ missing_in_sf # <<>>
    /\ extra_in_sf # <<>>

\* the name a reference column is looked up under: trimmed, upper-cased,
\* spaces to underscore, % to PERCENT
NormalizedName(ref) ==
    Replace(Replace(Upper(Strip(ref)), <<" ">>, <<"_">>), <<"%">>, PERCENT)

\* the looser comparison: the reference name without spaces and %, in upper
\* case, against the candidate name without underscores and the token PERCENT
MatchesAfterStripping(ref, cand) ==
    Upper(Replace(Replace(ref, <<" ">>, <<>>), <<"%">>, <<>>))
        = Replace(Replace(cand, <<"_">>, <<>>), PERCENT, <<>>)

\* the candidate the greedy rule gives a reference column: <<c>>, or <<>> when
\* the column is unmatched
GreedyImage(ref, cands) ==
    IF \E j \in 1..Len(cands) : cands[j] = NormalizedName(ref)
    THEN <<NormalizedName(ref)>>
    ELSE IF \E j \in 1..Len(cands) : MatchesAfterStripping(ref, cands[j])
         THEN LET j == CHOOSE k \in 1..Len(cands) :
                          /\ MatchesAfterStripping(ref, cands[k])
                          /\ \A l \in 1..(k - 1) : ~MatchesAfterStripping(ref, cands[l])
              IN  <<cands[j]>>
         ELSE <<>>

\* the pairs of the mapping whose key is ref
ImagesOf(ref) ==
    {column_mapping[i][2] : i \in {k \in 1..Len(column_mapping) : column_mapping[k][1] = ref}}

SameUpToCaseAndSpace(ref, cand) ==
    Upper(Replace(ref, <<" ">>, <<"_">>)) = Upper(Replace(cand, <<" ">>, <<"_">>))

\* C12: a reference column and a candidate column that differ only in letter
\* case or in space versus underscore are always mapped to each other (when no
\* other column of either list is that close to them).
CandidateNamesNormalized ==
    mpc = "mapped" =>
        \A i \in 1..Len(excel_columns), j \in 1..Len(sf_columns) :
            (/\ SameUpToCaseAndSpace(excel_columns[i], sf_columns[j])
             /\ \A k \in 1..Len(sf_columns) :
                    SameUpToCaseAndSpace(excel_columns[i], sf_columns[k]) => k = j
             /\ \A k \in 1..Len(excel_columns) :
                    SameUpToCaseAndSpace(excel_columns[k], sf_columns[j]) => k = i)
                => ImagesOf(excel_columns[i]) = {sf_columns[j]}

----------------------------------------------------------------------------
(* Properties of a batch of tables *)

\* the script's run over the batch is over
BatchOver == bpc \in {"done", "crashed", "recorded"}

\* the tables that left an entry
ComparedTables == {all_comparisons[k].table : k \in 1..Len(all_comparisons)}

\* every loader of the table works
Loads(env) ==
    /\ env.ref = "ok"
    /\ env.cand = "ok"
    /\ env.queries # "connect_error"

\* C15: a loader failure for one table skips only that table: when the batch
\* is over, every table whose loaders work has been compared, and the report
\* is written with the tables that ran.
BatchSkipsOnlyFailedTable ==
    BatchOver =>
        \A i \in 1..Len(tables) :
            Loads(tables[i]) =>
                /\ i \in ComparedTables
                /\ report.written
                /\ \E k \in 1..Len(report.tables) : report.tables[k].table = i

\* C16: the final report distinguishes a table that did not run from one that
\* ran: every table it presents was compared and has the status of its
\* comparison, it counts as checked only the tables compared, and it never
\* states that all files match when a configured table was not compared.
ReportDistinguishesNotRun ==
    (BatchOver /\ report.written
        /\ bscript \in {"detect_csv_excel_mismatches", "compare_excel_snowflake_reports"}) =>
        /\ \A k \in 1..Len(report.tables) :
              /\ Loads(tables[report.tables[k].table])
              /\ report.tables[k].overall_status = tables[report.tables[k].table].outcome
        /\ report.files_checked = Cardinality(ComparedTables)
        /\ report.all_match => ComparedTables = 1..Len(tables)

\* C17: the comparison script exits with status 0 only if every comparison it
\* ran has overall status PASSED, and the workflow runner records the step as
\* a success only then.
ExitStatusReflectsVerdicts ==
    bscript = "compare_excel_snowflake_reports" =>
        /\ returncode = <<0>> =>
              \A k \in 1..Len(all_comparisons) : all_comparisons[k].overall_status = "PASSED"
        /\ steps_completed # <<>> =>
              \A k \in 1..Len(all_comparisons) : all_comparisons[k].overall_status = "PASSED"

----------------------------------------------------------------------------
(* Properties of DataValidator *)

\* the checks of run_all_validations other than the duplicate-row check
OtherChecks == {"row_count", "columns", "data_types", "null_values", "numeric_values"}

\* two summaries whose check results are identical except for the
\* duplicate-row check, which matches in exactly one of them
SameExceptDuplicates(a, b) ==
    /\ \A k \in OtherChecks : a.details[k] = b.details[k]
    /\ a.details.duplicates.match # b.details.duplicates.match

\* C13: duplicate-row counts never influence the outcome: a validation run and
\* any other run whose check results are identical except for the
\* duplicate-row check have the same verdict and the same pass rate.
DuplicatesNeverGate ==
    (script = "data_validator" /\ cpc = "validated") =>
        \A p \in ReferenceDatasets(script), c \in Datasets(SfColumnLists) :
            LET other == run_all_validations(p, c)
            IN  SameExceptDuplicates(comparison, other) =>
                    /\ validation_passed(other) = validation_passed(comparison)
                    /\ other.pass_rate = comparison.pass_rate

----------------------------------------------------------------------------
(* Properties of the summary of compare_dataframes *)

\* C27: in the result of compare_dataframes overall_status is PASSED if and
\* only if the summary's failures count is 0.
StatusMatchesFailures ==
    (script = "compare_excel_snowflake_reports" /\ cpc # "loaded") =>
        ((comparison.overall_status = "PASSED") = (comparison.summary.failures = 0))

Occurrences(seq, x) == Cardinality({i \in 1..Len(seq) : seq[i] = x})

----------------------------------------------------------------------------
(* Properties of PowerBILogger *)

\* C24: PowerBILogger is a singleton initialized once: after any number of
\* constructions all of them returned the same instance, _setup_logger has
\* run exactly once, and the logger holds exactly one file handler and one
\* console handler.
SingletonInitializedOnce ==
    constructed # <<>> =>
        /\ \A i, j \in 1..Len(constructed) : constructed[i] = constructed[j]
        /\ instances_made = 1
        /\ setup_runs = 1
        /\ Len(handlers) = 2
        /\ Occurrences(handlers, "FileHandler") = 1
        /\ Occurrences(handlers, "StreamHandler") = 1

\* three constructions and a message logged after them
SingletonInitializedOnceWitness ==
    /\ Len(constructed) >= 3
    /\ Len(file_records) >= 2

----------------------------------------------------------------------------
(* Properties of SnowflakeConnector *)

\* C25: once the block of `with SnowflakeConnector()` or of
\* `with snowflake_connection()` has been entered, the connection was
\* established, and when the block has been left, normally or by an
\* exception, close() has run once and the connection is closed; when
\* connect() raises the block is not entered, that failure is what
\* propagates, and a close() that meets no connection closes nothing and
\* raises nothing.
ConnectionClosedOnExit ==
    /\ block = "inside" => connection = "open" /\ close_calls = 0
    /\ block = "left" => connection = "closed" /\ close_calls = 1
    /\ block = "not_entered" =>
         /\ propagated = "connect"
         /\ manager = "snowflake_connection" =>
              close_calls = 1 /\ connection \in {"None", "closed"} /\ cursor = "None"

ConnectionClosedOnExitWitness ==
    /\ block = "left"
    /\ propagated = "query"
    /\ connection = "closed"
    /\ Len(query_cursors) >= 2

\* C28: every cursor execute_query opened is closed once the call has
\* returned or raised.
CursorsClosedOnReturn ==
    \A i \in 1..Len(query_cursors) : query_cursors[i] = "closed"

----------------------------------------------------------------------------
(* Properties of detect_mismatches *)

\* the mappings gone through so far whose two files loaded
LoadedMappings ==
    {j \in 1..(mapping_idx - 1) :
        file_mappings[j].df_csv # None /\ file_mappings[j].df_excel # None}

RecordsOf(table_name) ==
    SelectSeq(all_mismatches, LAMBDA r : r.Table_Name = table_name)

RECURSIVE TotalMismatches(_)
TotalMismatches(entries) ==
    IF entries = <<>> THEN 0
    ELSE Head(entries).Total_Mismatches + TotalMismatches(Tail(entries))

\* C29: in detect_mismatches every mapping whose two files loaded has one
\* entry in summary_data, its Total_Mismatches is the number of records of
\* all_mismatches that carry its name and its status is PASS exactly when
\* that number is 0; a Data_Value record exists only for a table whose row
\* counts and column counts are both equal; and the Total_Mismatches of the
\* summary add up to the length of all_mismatches.  The Summary sheet of
\* the workbook is summary_data.
SummaryCountsMismatches ==
    /\ Len(summary_data) = Cardinality(LoadedMappings)
    /\ \A j \in LoadedMappings :
         \E i \in 1..Len(summary_data) :
            /\ summary_data[i].Table_Name = MappingNames[j]
            /\ summary_data[i].Total_Mismatches = Len(RecordsOf(MappingNames[j]))
            /\ summary_data[i].Status = "PASS" <=> Len(RecordsOf(MappingNames[j])) = 0
    /\ \A r \in SeqToSet(all_mismatches) :
         r.Mismatch_Type = "Data_Value" =>
            \E j \in LoadedMappings :
               /\ MappingNames[j] = r.Table_Name
               /\ same_shape(file_mappings[j].df_csv, file_mappings[j].df_excel)
    /\ TotalMismatches(summary_data) = Len(all_mismatches)
    /\ workbook # <<>> => workbook[1].Summary = summary_data

SummaryCountsMismatchesWitness ==
    /\ workbook # <<>>
    /\ Len(summary_data) >= 2
    /\ \E r \in SeqToSet(all_mismatches) : r.Mismatch_Type = "Data_Value"
    /\ \E r \in SeqToSet(all_mismatches) : r.Mismatch_Type = "Row_Count"
    /\ \E i \in 1..Len(summary_data) : summary_data[i].Total_Mismatches >= 2

----------------------------------------------------------------------------
(* Properties of the workflow runners *)

\* the steps whose script was started, in the order they were started
AttemptedSteps == [i \in 1..Len(attempted) |-> attempted[i].step]

\* the steps a finished workflow must have started: every planned step for
\* the Allure runner, every planned step whose script exists for
\* ValidationWorkflow
StepsToStart ==
    IF runner = "AllureValidationRunner" THEN Planned(include_csv_comparison)
    ELSE {k \in Planned(include_csv_comparison) : StepScripts[k] \in present}

StepsInFixedOrder ==
    /\ \A i \in 1..(Len(attempted) - 1) : attempted[i].step < attempted[i + 1].step
    /\ \A i \in 1..Len(attempted) : attempted[i].step \in StepsToStart
    /\ wf_step > Len(StepScripts) => SeqToSet(AttemptedSteps) = StepsToStart
    /\ final_status # "NONE" => SeqToSet(AttemptedSteps) = StepsToStart

\* C22: a workflow starts its steps in the fixed order import, quick
\* validation, comparison, SQL export and, only when requested, CSV
\* comparison; whatever the outcome of a step (failure, timeout, exception),
\* every later step is started and the final summary is printed.
WorkflowRunsEveryStep ==
    /\ [](runner \in Runners => StepsInFixedOrder)
    /\ (runner \in Runners) ~> (final_status # "NONE")

\* a finished workflow in which all five steps were started and every kind
\* of failure happened
WorkflowRunsEveryStepWitness ==
    /\ runner \in Runners /\ final_status # "NONE"
    /\ Len(attempted) = Len(StepScripts)
    /\ \A o \in RunOutcomes : \E i \in 1..Len(attempted) : attempted[i].outcome = o

\* the names of the started steps that ended with the outcomes in a set
RECURSIVE NamesEnded(_, _)
NamesEnded(log, outcomes) ==
    IF log = <<>> THEN <<>>
    ELSE (IF Head(log).outcome \in outcomes THEN <<StepNames[Head(log).step]>> ELSE <<>>)
             \o NamesEnded(Tail(log), outcomes)

\* C26: every run_script invocation records its step in exactly one of
\* steps_completed and steps_failed: in steps_completed iff the script
\* exited with return code 0, in steps_failed on another return code, on the
\* timeout and on any other exception; run_script returns every time.
RunScriptRecordsOnce ==
    runner = "ValidationWorkflow" =>
        /\ steps_completed = NamesEnded(attempted, {"exit_0"})
        /\ \A i \in 1..Len(attempted) :
              LET name == StepNames[attempted[i].step]
              IN  /\ Occurrences(steps_completed, name) + Occurrences(steps_failed, name) = 1
                  /\ (attempted[i].outcome = "exit_0") = (Occurrences(steps_completed, name) = 1)
                  /\ (attempted[i].outcome # "exit_0") = (Occurrences(steps_failed, name) = 1)

\* a workflow in which run_script met a return code other than 0, the
\* timeout, another exception and a return code 0
RunScriptRecordsOnceWitness ==
    /\ runner = "ValidationWorkflow"
    /\ \A o \in RunOutcomes : \E i \in 1..Len(attempted) : attempted[i].outcome = o
    /\ steps_completed # <<>> /\ Len(steps_failed) >= 3

\* a step was run and recorded in steps_completed
RunAndCompleted(step) ==
    /\ \E i \in 1..Len(attempted) : attempted[i].step = step
    /\ InSeq(StepNames[step], steps_completed)

\* C30: the final status 'ALL VALIDATIONS COMPLETED SUCCESSFULLY' is printed
\* only if the import step and the comparison step were both run and
\* recorded in steps_completed; a missing script or a failed run of either
\* leads to the 'COMPLETED WITH n FAILED STEP(S)' status.
SuccessNeedsImportAndComparison ==
    (runner = "ValidationWorkflow" /\ final_status # "NONE") =>
        /\ final_status = "ALL VALIDATIONS COMPLETED SUCCESSFULLY"
              => (RunAndCompleted(ImportStep) /\ RunAndCompleted(CompareStep))
        /\ (~RunAndCompleted(ImportStep) \/ ~RunAndCompleted(CompareStep))
              => final_status = "COMPLETED WITH FAILED STEP(S)"

\* a finished workflow whose comparison script is missing while every step
\* that ran succeeded
SuccessNeedsImportAndComparisonWitness ==
    /\ runner = "ValidationWorkflow" /\ final_status # "NONE"
    /\ StepScripts[CompareStep] \notin present
    /\ attempted # <<>>
    /\ \A i \in 1..Len(attempted) : attempted[i].outcome = "exit_0"

----------------------------------------------------------------------------
(* Properties of the report folder *)

\* C21: no run removes or overwrites a report file an earlier run wrote:
\* every file that was in validation_reports/ before the latest run is still
\* there with its content.
ReportsNeverLost == \A f \in earlier : f \in validation_reports

----------------------------------------------------------------------------
(* Properties of the loaders *)

\* a row of the input with every cell missing
FullyBlank(row) == \A j \in 1..Len(row) : IsNa(row[j])

\* the first cell of a row holds the marker, as written / in any letter case
HoldsMarker(row) == ContainsText(PyStr(row[1]), AppliedFilters)
HoldsMarkerAnyCase(row) == ContainsText(Lower(PyStr(row[1])), Lower(AppliedFilters))

\* the labels a dataset's rows had in the input
Returned(d) == {d.index[k] : k \in 1..Len(d.index)}

\* C19: a spreadsheet loader returns the rows of the input, in their
\* original order, that are not fully blank and whose first cell does not
\* contain "Applied filters": no such row is dropped, no row with the marker
\* or fully blank is kept, and column names carry no surrounding whitespace.
\* A row whose first cell holds the marker in another letter case may go
\* either way.
LoaderKeepsExactlyDataRows ==
    (lpc = "returned" /\ loader \in SpreadsheetLoaders) =>
        LET d == ldf[1]
        IN  /\ \A i \in 1..Len(raw.rows) :
                  /\ (~FullyBlank(raw.rows[i]) /\ ~HoldsMarkerAnyCase(raw.rows[i]))
                        => (i - 1) \in Returned(d)
                  /\ (FullyBlank(raw.rows[i]) \/ HoldsMarker(raw.rows[i]))
                        => (i - 1) \notin Returned(d)
            /\ \A k \in 1..(Len(d.index) - 1) : d.index[k] < d.index[k + 1]
            /\ Len(d.columns) = Len(raw.columns)
            /\ \A j \in 1..Len(d.columns) :
                  Lower(d.columns[j]) = Lower(Strip(raw.columns[j]))

\* C20: a warehouse loader returns a dataset whose column names are the
\* result's column names, in order, for every result, one with zero rows
\* included.
WarehouseColumnsVerbatim ==
    (lpc = "returned" /\ loader \in WarehouseLoaders) =>
        ldf[1].columns = raw.columns

----------------------------------------------------------------------------
(* Properties of value normalisation *)

\* C3: normalising a normalised value changes nothing, for clean_excel_value
\* and the clean_value of complete_data_comparison and of
\* detect_csv_excel_mismatches.
NormalizeIdempotent ==
    (npc = "twice" /\ nfn \in {"clean_excel_value", "clean_value_complete",
                                "clean_value_detect"})
        => PyEq(nout2, nout1)

\* a text cell that bears a percent sign and is a number without it
PercentBearing(cell) ==
    IsStr(cell) /\ Contains(cell.s, "%")
        /\ FloatParses(Replace(cell.s, <<"%">>, <<>>))

\* the magnitude written in a percent-bearing text: "0.6%" is 0.6
ParsedMagnitude(cell) == FloatParse(Replace(cell.s, <<"%">>, <<>>))

\* C18: every normaliser turns a percent-bearing text into the parsed
\* magnitude without rescaling ("0.6%" becomes 0.6), so the same percent
\* text yields the same number whichever script cleans it.
PercentKeepsMagnitude ==
    npc = "cleaned" =>
        \A i \in 1..Len(nraw) :
            (PercentBearing(nraw[i]) /\ ~nout1.raised) =>
                /\ IsNum(nout1.values[i])
                /\ nout1.values[i].v = ParsedMagnitude(nraw[i]).v

----------------------------------------------------------------------------
(* Properties of the cell comparison *)

OneAbsent(a, b) == IsNa(a) # IsNa(b)

\* C7: two absent cells are never a mismatch and a pair with exactly one
\* absent cell always is, whatever the other value, in compare_dataframes and
\* in both compare_values.
AbsentCellRule ==
    (cellpc = "compared" /\ cfn \in {"compare_dataframes", "compare_values_complete",
                                      "compare_values_detect"})
        => /\ (IsNa(cval1) /\ IsNa(cval2)) => ~cfwd
           /\ OneAbsent(cval1, cval2) => cfwd

\* the absolute tolerance a script states, in units of 1/Scale
StatedTolerance(fn) ==
    CASE fn = "compare_values_complete" -> Scale \div ToleranceInverse
      [] fn = "compare_values_detect"   -> Scale \div DetectToleranceInverse

\* C8: two numbers are equal exactly when their absolute difference is at
\* most the tolerance, and the answer is the same for any two numbers with
\* that absolute difference.
ToleranceBoundary ==
    (cellpc = "compared" /\ IsNum(cval1) /\ IsNum(cval2)
        /\ cfn \in {"compare_values_complete", "compare_values_detect", "compare_dataframes"})
        => /\ cfwd = cshifted
           /\ cfn # "compare_dataframes" =>
                 (~cfwd <=> Abs(cval1.v - cval2.v) <= StatedTolerance(cfn))

\* C9: numeric equality under tolerance is symmetric in every script.
ToleranceSymmetric ==
    (cellpc = "compared" /\ IsNum(cval1) /\ IsNum(cval2)) => cfwd = cbwd

----------------------------------------------------------------------------
(* Properties of the per-table comparison *)

\* the script produced a result for the table
Compared(sc) ==
    script = sc /\ cpc \in {"compared", "done"} /\ "raised" \notin DOMAIN comparison

RowCountsMatch    == Len(excel_df.rows) = Len(sf_df.rows)
ColumnCountsMatch == Len(excel_df.columns) = Len(sf_df.columns)

NullDeltasZero ==
    \A k \in 1..Len(comparison.checks.null_values) :
        comparison.checks.null_values[k].difference = 0

NoCellMismatch   == comparison.checks.data_validation.mismatches = <<>>
NoMissingColumn  == comparison.checks.column_mapping.missing_in_snowflake = <<>>

AuditReadsInRange ==
    \A i \in reads.reference \cup reads.candidate :
        i < Len(excel_df.rows) /\ i < Len(sf_df.rows)

\* C5: a disagreement between the two loaded datasets never makes the
\* comparison raise, and the result that records it reaches the saved report.
DisagreementReachesReport ==
    script \in {"compare_excel_snowflake_reports", "validate_excel_snowflake"} =>
        /\ cpc # "raised"
        /\ (cpc = "done" /\ ~(RowCountsMatch /\ ColumnCountsMatch)) =>
              (Len(saved) = 1 /\ saved[1].overall_status = "FAILED")

\* the cell mismatches the script's result lists, as <<row index, column>>
ReportedMismatches ==
    CASE script = "compare_excel_snowflake_reports" ->
            {<<m.row, m.column>> : m \in SeqToSet(comparison.checks.data_validation.mismatches)}
      [] script = "validate_excel_snowflake" ->
            {<<m.row, m.column>> :
                m \in SeqToSet(comparison.validations.data_samples.mismatches)}
      [] script = "complete_data_comparison" ->
            {<<m.row - 2, m.column_name>> : m \in SeqToSet(comparison.diff_cells)}

\* two numbers that differ by one or more
ClearlyDiffer(a, b) == IsNum(a) /\ IsNum(b) /\ Abs(a.v - b.v) >= Scale

\* C14: no sampling being requested of the scripts, the cell audit examines
\* every row index from 0 to min(reference rows, candidate rows) - 1: a pair
\* of numbers that differ by one or more, at any such row of a column both
\* datasets have, is reported as a mismatch.
AuditCoversEveryRow ==
    (\/ Compared("compare_excel_snowflake_reports")
     \/ Compared("validate_excel_snowflake")
     \/ Compared("complete_data_comparison"))
        => \A idx \in Range(Min(Len(excel_df.rows), Len(sf_df.rows))) :
             \A col \in SeqToSet(excel_df.columns) \cap SeqToSet(sf_df.columns) :
                ClearlyDiffer(Cell(excel_df, idx, col), Cell(sf_df, idx, col))
                    => <<idx, col>> \in ReportedMismatches

ReportedRowDifference ==
    CASE script = "compare_excel_snowflake_reports" -> comparison.checks.row_count.difference
      [] script = "validate_excel_snowflake"        -> comparison.validations.row_count.difference
      [] script = "data_validator"                  -> comparison.row_count.difference

\* C6: the reported row-count difference is the candidate's row count minus
\* the reference's, signed.
RowDifferenceSigned ==
    (\/ Compared("compare_excel_snowflake_reports")
     \/ Compared("validate_excel_snowflake")
     \/ Compared("data_validator"))
        => ReportedRowDifference = Len(sf_df.rows) - Len(excel_df.rows)

====
